---- MODULE Spec2Model ----
(***************************************************************************)
(* Credential pool manager of kiro2api: auth/token_manager.go (the lazy,   *)
(* lock-releasing variant, lines 937-1658) and the AuthService facade of   *)
(* auth/auth.go + auth/config.go (src/unnamed/part_005).                   *)
(*                                                                         *)
(* Indices are 0-based as in the Go code; sequences are 1-based, so the    *)
(* record at index i is configs[i + 1].                                    *)
(* Instants are kept relative to the present: Now is 0, an instant in the *)
(* past is negative, and a tick moves every stored instant one step back, *)
(* saturating once an entry is both stale and expired (nothing the code   *)
(* does distinguishes older instants). Quota amounts are counted in       *)
(* halves of one use (float64 in the code), so fractional amounts exist.  *)
(***************************************************************************)
EXTENDS Integers, Sequences, FiniteSets, Bags, TLC

\* ------------------------------------------------------------- bounds ----
MaxLen == 2
MaxTasks == 1
\* refresh goroutines alive at once where manual refreshes are studied
MaxManual == 2

\* config.TokenCacheTTL and the lifetime the refresh gateway grants, in ticks
TokenCacheTTL == 0
TokenLifetime == 1
\* one use, in halves
Unit == 2

Callers == {1, 2}
NoCaller == 0

\* time.Now(), the zero time.Time, and the age after which an entry is
\* stale and expired for good
Now == 0
ZeroTime == -9
Horizon == TokenLifetime + 1

\* ------------------------------------------------------ credentials ------
AuthMethodSocial == "Social"
AuthMethodIdC == "IdC"

AuthConfig(rt, auth, id, secret, disabled) ==
  [RefreshToken |-> rt, AuthType |-> auth, ClientID |-> id,
   ClientSecret |-> secret, Disabled |-> disabled]

CredA == AuthConfig("rtA", AuthMethodSocial, "", "", FALSE)
CredB == AuthConfig("rtB", AuthMethodIdC, "id", "secret", FALSE)
CredC == AuthConfig("rtC", AuthMethodSocial, "", "", TRUE)

\* records the pool manager is handed by its callers
PoolInputs == {CredA, CredB, CredC}

\* fmt.Sprintf(config.TokenCacheKeyFormat, i) with the format "token_%d"
CacheKey(i) == <<"token_", i>>

\* ------------------------------------------------------------ quota ------
NoFreeTrial == [FreeTrialStatus |-> "NONE", UsageLimitWithPrecision |-> 0,
                CurrentUsageWithPrecision |-> 0]

Breakdown(type, limit, used, ft) ==
  [ResourceType |-> type, UsageLimitWithPrecision |-> limit,
   CurrentUsageWithPrecision |-> used, FreeTrialInfo |-> ft]

RECURSIVE CalculateFrom(_, _)
CalculateFrom(list, i) ==
  IF i > Len(list) THEN 0
  ELSE IF list[i].ResourceType = "CREDIT"
       THEN LET ft == list[i].FreeTrialInfo
                freeTrialAvailable ==
                  IF ft # NoFreeTrial /\ ft.FreeTrialStatus = "ACTIVE"
                  THEN ft.UsageLimitWithPrecision - ft.CurrentUsageWithPrecision
                  ELSE 0
                baseAvailable == list[i].UsageLimitWithPrecision
                                   - list[i].CurrentUsageWithPrecision
                totalAvailable == freeTrialAvailable + baseAvailable
            IN IF totalAvailable < 0 THEN 0 ELSE totalAvailable
       ELSE CalculateFrom(list, i + 1)

\* a count that leaves the free trial out
CalculateBaseOnly(usage) ==
  CalculateFrom([i \in 1..Len(usage.UsageBreakdownList) |->
                  [usage.UsageBreakdownList[i] EXCEPT !.FreeTrialInfo = NoFreeTrial]], 1)

CalculateAvailableCount(usage) == CalculateFrom(usage.UsageBreakdownList, 1)

UsageLimits(list) == [UsageBreakdownList |-> list]

\* what the quota inspector can answer: nothing left, half a use, one use,
\* two uses (one of them from an active free trial)
UsageNone == UsageLimits(<<Breakdown("CREDIT", 4, 4, NoFreeTrial)>>)
UsageHalf == UsageLimits(<<Breakdown("CREDIT", 4, 3, NoFreeTrial)>>)
UsageOne  == UsageLimits(<<Breakdown("CREDIT", 4, 2, NoFreeTrial)>>)
UsageTwo  == UsageLimits(<<Breakdown("AGENTIC_REQUEST", 9, 0, NoFreeTrial),
                           Breakdown("CREDIT", 4, 2,
                             [FreeTrialStatus |-> "ACTIVE",
                              UsageLimitWithPrecision |-> 2,
                              CurrentUsageWithPrecision |-> 0])>>)
UsageAnswers == {UsageNone, UsageHalf, UsageOne, UsageTwo}

NoUsage == [UsageBreakdownList |-> <<>>]

\* outcome of one refresh-gateway exchange followed by one quota check
RefreshFailed == [err |-> TRUE, checkErr |-> FALSE, usage |-> NoUsage]
QuotaCheckFailed == [err |-> FALSE, checkErr |-> TRUE, usage |-> NoUsage]
Refreshed(u) == [err |-> FALSE, checkErr |-> FALSE, usage |-> u]
Outcomes == {RefreshFailed, QuotaCheckFailed} \cup {Refreshed(u) : u \in UsageAnswers}
\* the exchange fails, or it grants one whole use
WholeOutcomes == {RefreshFailed, Refreshed(UsageOne)}

\* ------------------------------------------------------------ state ------
VARIABLES
  configs,       \* tm.configs
  configOrder,   \* tm.configOrder
  cache,         \* tm.cache.tokens
  currentIndex,  \* tm.currentIndex
  exhausted,     \* tm.exhausted (keys mapped to true)
  refreshing,    \* tm.refreshing (keys mapped to true)
  mutex,         \* tm.mutex: the caller holding it exclusively, or NoCaller
  acq,           \* each getBestToken caller: position in the call, locals, result
  tasks,         \* the goroutines running refreshSingleTokenAsync
  asConfigs,     \* as.configs, the facade's parallel list
  saved,         \* the configuration file SaveConfigs writes
  fac,           \* each AuthService.AddConfig / RemoveConfig caller
  reply,         \* what the latest pool-manager call returned (observer)
  hist,          \* the positions the latest getBestToken calls returned (observer)
  sweep,         \* the goroutine RefreshAllTokens starts: its snapshot and position
  loader,        \* loadConfigs: KIRO_AUTH_TOKEN, the files it reads, configFilePath, its result
  client         \* the ClientTokenManager: m.tokens, m.stats, the latest return value

tmVars == <<configs, configOrder, cache, currentIndex, exhausted, refreshing>>
vars == <<configs, configOrder, cache, currentIndex, exhausted, refreshing,
          mutex, acq, tasks, asConfigs, saved, fac, reply, hist, sweep, loader, client>>
facVars == <<asConfigs, saved, fac>>
obsVars == <<reply, hist>>
\* what the operations of the pool manager itself never touch
rest == <<asConfigs, saved, fac, reply, hist, sweep, loader, client>>

\* ---------------------------------------------------------- helpers ------
Has(m, k) == k \in DOMAIN m
MapPut(m, k, v) == [x \in DOMAIN m \cup {k} |-> IF x = k THEN v ELSE m[x]]
MapDelete(m, k) == [x \in DOMAIN m \ {k} |-> m[x]]
EmptyMap == [x \in {} |-> 0]

RemoveAt(s, index) == [i \in 1..(Len(s) - 1) |-> IF i <= index THEN s[i] ELSE s[i + 1]]

\* a range check that lets the length itself through
InRangeInclusive(index, list) == index >= 0 /\ index <= Len(list)

\* index < 0 || index >= len(list), negated
InRange(index, list) == index >= 0 /\ index < Len(list)

\* CachedToken built by a refresh that completes now
CachedToken(rt, usage, available) ==
  [Token |-> [rt |-> rt, ExpiresAt |-> Now + TokenLifetime],
   UsageInfo |-> usage, CachedAt |-> Now, LastUsed |-> ZeroTime,
   Available |-> available]

\* a usability test that wants more than one use left
IsUsableStrict(ct) ==
  IF Now > ct.Token.ExpiresAt THEN FALSE ELSE ct.Available > Unit

IsUsable(ct) ==
  IF Now > ct.Token.ExpiresAt THEN FALSE ELSE ct.Available > 0

CacheExpired(ct) == Now - ct.CachedAt > TokenCacheTTL

generateConfigOrder(cfgs) == [i \in 1..Len(cfgs) |-> CacheKey(i - 1)]

\* ------------------------------------------------------------- init ------
Idle == [pc |-> "idle", attempts |-> 0, index |-> 0, rt |-> "", ret |-> "none"]

FacadeCallers == {1, 2}
NoCfg == AuthConfig("", "", "", "", FALSE)
FacIdle == [pc |-> "idle", op |-> "none", cfg |-> NoCfg, index |-> 0, oldConfigs |-> <<>>,
            poolBefore |-> <<>>]

\* no RefreshAllTokens goroutine is running
SweepIdle == [pc |-> "idle", snap |-> <<>>, i |-> 0, index |-> 0]

\* loadConfigs has not been called
LoaderIdle == [pc |-> "idle"]

\* no ClientTokenManager exists
ClientIdle == [pc |-> "none"]

Reply(op, arg, err) == [op |-> op, arg |-> arg, err |-> err]
NoReply == Reply("none", 0, "")

InitialConfigs == {<<>>, <<CredA>>, <<CredA, CredB>>}

NewTokenManager(cfgs) ==
  /\ configs = cfgs
  /\ configOrder = generateConfigOrder(cfgs)
  /\ cache = EmptyMap
  /\ currentIndex = 0
  /\ exhausted = {}
  /\ refreshing = {}

\* NewAuthService: both lists come from the one loaded configuration
NewAuthService(cfgs) ==
  /\ NewTokenManager(cfgs)
  /\ asConfigs = cfgs
  /\ saved = cfgs
  /\ fac = [f \in FacadeCallers |-> FacIdle]

Init ==
  /\ \E cfgs \in InitialConfigs : NewAuthService(cfgs)
  /\ mutex = NoCaller
  /\ acq = [p \in Callers |-> Idle]
  /\ tasks = EmptyBag
  /\ reply = NoReply
  /\ hist = <<>>
  /\ sweep = SweepIdle
  /\ loader = LoaderIdle
  /\ client = ClientIdle

\* ----------------------------------------------- acquire (getBestToken) --
NoTokenAvailable == "NoTokenAvailable"
Panicked == "panic"

\* a dispenser that hands out all that is left at once
DispenseAll(ct) == [ct EXCEPT !.LastUsed = Now, !.Available = 0]

\* a dispenser that takes two uses for one call
DispenseTwo(ct) ==
  [ct EXCEPT !.LastUsed = Now,
             !.Available = IF ct.Available > 0 THEN ct.Available - 2 * Unit ELSE ct.Available]

\* a dispensing that leaves the remaining amount as it was
DispenseNone(ct) == [ct EXCEPT !.LastUsed = Now]

\* getBestToken lines 1018-1022 / GetBestTokenWithUsage lines 1040-1044
Dispense(ct) ==
  [ct EXCEPT !.LastUsed = Now,
             !.Available = IF ct.Available > 0 THEN ct.Available - Unit ELSE ct.Available]

\* selectBestTokenUnlocked returned the entry under `key` of the cache `c`;
\* getBestToken dispenses it and its deferred Unlock runs
ReturnToken(p, key, c) ==
  /\ cache' = [c EXCEPT ![key] = Dispense(c[key])]
  /\ acq' = [acq EXCEPT ![p] = [Idle EXCEPT !.ret = "token"]]
  /\ mutex' = NoCaller

\* a return of nil whose Unlock is missing
ReturnNilHolding(p) ==
  /\ acq' = [acq EXCEPT ![p] = [Idle EXCEPT !.ret = NoTokenAvailable]]
  /\ mutex' = p

\* selectBestTokenUnlocked returned nil
ReturnNil(p) ==
  /\ acq' = [acq EXCEPT ![p] = [Idle EXCEPT !.ret = NoTokenAvailable]]
  /\ mutex' = NoCaller

\* a marking that ends the call with nil as soon as every position of the
\* list carries a mark
MarkExhaustedGivingUp(p, key, ex) ==
  /\ exhausted' = ex \cup {key}
  /\ IF Len(configOrder) = 0
     THEN /\ acq' = [acq EXCEPT ![p] = [Idle EXCEPT !.ret = Panicked]]
          /\ mutex' = NoCaller
          /\ UNCHANGED currentIndex
     ELSE IF \A i \in 1..Len(configOrder) : configOrder[i] \in ex \cup {key}
     THEN /\ acq' = [acq EXCEPT ![p] = [Idle EXCEPT !.ret = NoTokenAvailable]]
          /\ mutex' = NoCaller
          /\ UNCHANGED currentIndex
     ELSE /\ currentIndex' = (currentIndex + 1) % Len(configOrder)
          /\ acq' = [acq EXCEPT ![p] = [pc |-> "loop", attempts |-> acq[p].attempts + 1,
                                        index |-> 0, rt |-> "", ret |-> "none"]]
          /\ mutex' = p

\* lines 1147-1149: mark the key exhausted and advance the cursor; the
\* modulo faults when the list was emptied while the lock was released
MarkExhausted(p, key, ex) ==
  /\ exhausted' = ex \cup {key}
  /\ IF Len(configOrder) = 0
     THEN /\ acq' = [acq EXCEPT ![p] = [Idle EXCEPT !.ret = Panicked]]
          /\ mutex' = NoCaller
          /\ UNCHANGED currentIndex
     ELSE /\ currentIndex' = (currentIndex + 1) % Len(configOrder)
          /\ acq' = [acq EXCEPT ![p] = [pc |-> "loop", attempts |-> acq[p].attempts + 1,
                                        index |-> 0, rt |-> "", ret |-> "none"]]
          /\ mutex' = p

\* the task a `go tm.refreshSingleTokenAsync(index, cfg)` statement starts
AsyncTask(index, cfg) == [index |-> index, rt |-> cfg.RefreshToken, pc |-> "start"]
Spawn(index, cfg) == tasks' = tasks (+) SetToBag({AsyncTask(index, cfg)})
Room == BagCardinality(tasks) < MaxTasks
\* a pass over the cache as it is would start a background refresh
MaySpawn ==
  \E k \in DOMAIN cache \ refreshing : CacheExpired(cache[k]) /\ IsUsable(cache[k])

\* triggerAsyncRefreshUnlocked(index, cacheKey)
triggerAsyncRefreshUnlocked(index, cacheKey) ==
  IF ~InRange(index, configs) THEN UNCHANGED <<refreshing, tasks>>
  ELSE IF configs[index + 1].Disabled THEN UNCHANGED <<refreshing, tasks>>
  ELSE /\ refreshing' = refreshing \cup {cacheKey}
       /\ Spawn(index, configs[index + 1])

\* a synchronous refresh that keeps the caller's lock over the network call
KeepLocked(p) == p

\* line 1330: the holder of the mutex once refreshSingleTokenSyncUnlock has
\* unlocked it for the network call of caller p
UnlockForNetwork(p) == NoCaller

\* a getBestToken that enters the loop without looking at the list's length
AcquireBeginUnchecked(p) ==
  /\ acq[p].pc = "idle"
  /\ mutex = NoCaller
  /\ Room \/ ~MaySpawn
  /\ acq' = [acq EXCEPT ![p] = [Idle EXCEPT !.pc = "loop"]]
  /\ mutex' = p
  /\ UNCHANGED <<tmVars, tasks>>

\* getBestToken: Lock, then selectBestTokenUnlocked up to its loop
AcquireBegin(p) ==
  /\ acq[p].pc = "idle"
  /\ mutex = NoCaller
  /\ Room \/ ~MaySpawn
  /\ IF Len(configOrder) = 0
     THEN /\ acq' = [acq EXCEPT ![p].ret = NoTokenAvailable]
          /\ UNCHANGED mutex
     ELSE /\ acq' = [acq EXCEPT ![p] = [Idle EXCEPT !.pc = "loop"]]
          /\ mutex' = p
  /\ UNCHANGED <<tmVars, tasks>>

\* one iteration of the loop of selectBestTokenUnlocked, lock held
AcquireIter(p) ==
  /\ acq[p].pc = "loop"
  /\ mutex = p
  /\ UNCHANGED <<configs, configOrder>>
  /\ IF acq[p].attempts >= Len(configOrder)
     THEN ReturnNil(p) /\ UNCHANGED <<cache, currentIndex, exhausted, refreshing, tasks>>
     ELSE IF ~InRange(currentIndex, configOrder)
     THEN /\ acq' = [acq EXCEPT ![p] = [Idle EXCEPT !.ret = Panicked]]
          /\ mutex' = NoCaller
          /\ UNCHANGED <<cache, currentIndex, exhausted, refreshing, tasks>>
     ELSE
       LET currentKey == configOrder[currentIndex + 1]
           currentIdx == currentIndex
           exists == Has(cache, currentKey)
       IN IF exists /\ CacheExpired(cache[currentKey]) /\ IsUsable(cache[currentKey])
          THEN \* lines 1087-1095: stale but usable, serve it and revalidate
               /\ IF currentKey \notin refreshing
                  THEN triggerAsyncRefreshUnlocked(currentIdx, currentKey)
                  ELSE UNCHANGED <<refreshing, tasks>>
               /\ ReturnToken(p, currentKey, cache)
               /\ UNCHANGED <<currentIndex, exhausted>>
          ELSE IF exists /\ ~CacheExpired(cache[currentKey])
          THEN \* lines 1115-1124: fresh entry
               IF IsUsable(cache[currentKey])
               THEN /\ ReturnToken(p, currentKey, cache)
                    /\ UNCHANGED <<currentIndex, exhausted, refreshing, tasks>>
               ELSE /\ MarkExhausted(p, currentKey, exhausted)
                    /\ UNCHANGED <<cache, refreshing, tasks>>
          ELSE \* lines 1096-1114 and 1126-1144: no entry, or stale and unusable
               IF InRange(currentIdx, configs) /\ ~configs[currentIdx + 1].Disabled
               THEN IF currentKey \in refreshing
                    THEN /\ currentIndex' = (currentIndex + 1) % Len(configOrder)
                         /\ acq' = [acq EXCEPT ![p].attempts = @ + 1]
                         /\ UNCHANGED <<cache, exhausted, refreshing, tasks, mutex>>
                    ELSE \* refreshSingleTokenSyncUnlock up to its Unlock
                         /\ refreshing' = refreshing \cup {currentKey}
                         /\ acq' = [acq EXCEPT ![p].pc = "net", ![p].index = currentIdx,
                                      ![p].rt = configs[currentIdx + 1].RefreshToken]
                         /\ mutex' = UnlockForNetwork(p)
                         /\ UNCHANGED <<cache, currentIndex, exhausted, tasks>>
               ELSE /\ MarkExhausted(p, currentKey, exhausted)
                    /\ UNCHANGED <<cache, refreshing, tasks>>

\* a synchronous refresh that commits one use whatever the inspector said
SyncAvailableOne(out) == Unit

\* lines 1336-1347: the remaining amount refreshSingleTokenSyncUnlock
\* commits; `available = 1` when the quota check failed
SyncAvailable(out) ==
  IF out.checkErr THEN Unit ELSE CalculateAvailableCount(out.usage)

\* lines 1239-1249: the remaining amount refreshSingleTokenAsync commits;
\* `available` keeps its zero value when the quota check failed
AsyncAvailable(out) ==
  IF out.checkErr THEN 0 ELSE CalculateAvailableCount(out.usage)

\* a return that leaves the in-flight marker behind
KeepMarker(marks, cacheKey) == marks

\* line 1353: delete(tm.refreshing, cacheKey)
DeleteMarker(marks, cacheKey) == marks \ {cacheKey}

\* refreshSingleTokenSyncUnlock from its Lock (line 1350) on, then the rest
\* of the iteration of selectBestTokenUnlocked that called it
AcquireResume(p, out) ==
  /\ acq[p].pc = "net"
  /\ mutex = NoCaller
  /\ Room \/ ~MaySpawn
  /\ LET cacheKey == CacheKey(acq[p].index)
         available == SyncAvailable(out)
         cached == CachedToken(acq[p].rt, out.usage, available)
         committed == MapPut(cache, cacheKey, cached)
     IN /\ refreshing' = DeleteMarker(refreshing, cacheKey)
        /\ IF out.err
           THEN /\ MarkExhausted(p, cacheKey, exhausted)
                /\ UNCHANGED cache
           ELSE IF IsUsable(cached)
           THEN /\ ReturnToken(p, cacheKey, committed)
                /\ exhausted' = exhausted \ {cacheKey}
                /\ UNCHANGED currentIndex
           ELSE /\ cache' = committed
                /\ MarkExhausted(p, cacheKey, exhausted \ {cacheKey})
  /\ UNCHANGED <<configs, configOrder, tasks>>

\* ------------------------------------------ refreshSingleTokenAsync ------
Finish(t) == tasks (-) SetToBag({t})
Move(t, pc) == tasks' = Finish(t) (+) SetToBag({[t EXCEPT !.pc = pc]})

\* lines 1198-1227: the identity check under RLock, before the network call
TaskValidate(t) ==
  /\ BagIn(t, tasks) /\ t.pc = "start"
  /\ mutex = NoCaller
  /\ IF ~InRange(t.index, configs) THEN Move(t, "clear")
     ELSE IF configs[t.index + 1].RefreshToken # t.rt THEN Move(t, "clear")
     ELSE Move(t, "net")
  /\ UNCHANGED <<tmVars, mutex, acq>>

\* lines 1229-1237: the exchange failed; nothing is written
TaskFail(t) ==
  /\ BagIn(t, tasks) /\ t.pc = "net"
  /\ Move(t, "clear")
  /\ UNCHANGED <<tmVars, mutex, acq>>

\* lines 1239-1261: the exchange succeeded; quota check, then the commit
\* under Lock
TaskCommit(t, out) ==
  /\ BagIn(t, tasks) /\ t.pc = "net"
  /\ ~out.err
  /\ mutex = NoCaller
  /\ LET cacheKey == CacheKey(t.index)
         available == AsyncAvailable(out)
     IN /\ cache' = MapPut(cache, cacheKey, CachedToken(t.rt, out.usage, available))
        /\ exhausted' = exhausted \ {cacheKey}
  /\ Move(t, "clear")
  /\ UNCHANGED <<configs, configOrder, currentIndex, refreshing, mutex, acq>>

\* a task that ends without its deferred removal of the marker
TaskClearLeak(t) ==
  /\ BagIn(t, tasks) /\ t.pc = "clear"
  /\ mutex = NoCaller
  /\ tasks' = tasks (-) SetToBag({t})
  /\ UNCHANGED <<tmVars, mutex, acq>>

\* lines 1192-1196: the deferred removal of the in-flight marker
TaskClear(t) ==
  /\ BagIn(t, tasks) /\ t.pc = "clear"
  /\ mutex = NoCaller
  /\ refreshing' = refreshing \ {CacheKey(t.index)}
  /\ tasks' = Finish(t)
  /\ UNCHANGED <<configs, configOrder, cache, currentIndex, exhausted, mutex, acq>>

\* ------------------------------------------------------ pool mutation ----
\* an add that starts the initial refresh whatever the record says
AddConfigAlways(cfg) ==
  /\ mutex = NoCaller
  /\ Room
  /\ configs' = Append(configs, cfg)
  /\ configOrder' = Append(configOrder, CacheKey(Len(configs)))
  /\ Spawn(Len(configs), cfg)
  /\ UNCHANGED <<cache, currentIndex, exhausted, refreshing, mutex, acq>>

\* TokenManager.AddConfig
AddConfig(cfg) ==
  /\ mutex = NoCaller
  /\ cfg.Disabled \/ Room
  /\ configs' = Append(configs, cfg)
  /\ configOrder' = Append(configOrder, CacheKey(Len(configs)))
  /\ IF ~cfg.Disabled THEN Spawn(Len(configs), cfg) ELSE UNCHANGED tasks
  /\ UNCHANGED <<cache, currentIndex, exhausted, refreshing, mutex, acq>>

\* a re-keying that shifts the positions from the removed one on two places
RekeyTooFar(m, index, n) ==
  LET oldIdx(i) == IF i >= index THEN i + 2 ELSE i
      kept == {i \in 0..(n - 1) : Has(m, CacheKey(oldIdx(i)))}
  IN [k \in {CacheKey(i) : i \in kept} |-> m[CacheKey(oldIdx(k[2]))]]

\* lines 1521-1550: the entries and marks of the survivors under their new keys
Rekey(m, index, n) ==
  LET oldIdx(i) == IF i >= index THEN i + 1 ELSE i
      kept == {i \in 0..(n - 1) : Has(m, CacheKey(oldIdx(i)))}
  IN [k \in {CacheKey(i) : i \in kept} |-> m[CacheKey(oldIdx(k[2]))]]

RekeyMarks(marks, index, n) ==
  LET oldIdx(i) == IF i >= index THEN i + 1 ELSE i
  IN {CacheKey(i) : i \in {j \in 0..(n - 1) : CacheKey(oldIdx(j)) \in marks}}

\* a remove that leaves the cursor where it was
KeepIndex(cursor, n) == cursor

\* lines 1552-1555: the cursor after a remove that left n credentials
AdjustIndex(cursor, n) == IF cursor >= n THEN 0 ELSE cursor

\* TokenManager.RemoveConfig
RemoveConfig(index) ==
  /\ mutex = NoCaller
  /\ IF ~InRange(index, configs)
     THEN UNCHANGED <<tmVars, tasks>>
     ELSE LET oldCacheKey == CacheKey(index)
              n == Len(configs) - 1
          IN /\ configs' = RemoveAt(configs, index)
             /\ cache' = Rekey(MapDelete(cache, oldCacheKey), index, n)
             /\ configOrder' = [i \in 1..n |-> CacheKey(i - 1)]
             /\ exhausted' = RekeyMarks(exhausted \ {oldCacheKey}, index, n)
             /\ currentIndex' = AdjustIndex(currentIndex, n)
             /\ UNCHANGED <<refreshing, tasks>>
  /\ UNCHANGED <<mutex, acq>>

\* the errors of RefreshSingleTokenByIndex, lines 1569 and 1575
InvalidIndex == "InvalidIndex"
ConfigDisabled == "ConfigDisabled"

\* what RefreshSingleTokenByIndex(index) returns; "" is nil
RefreshOneError(index) ==
  IF ~InRange(index, configs) THEN InvalidIndex
  ELSE IF configs[index + 1].Disabled THEN ConfigDisabled
  ELSE ""

\* TokenManager.RefreshSingleTokenByIndex
RefreshSingleTokenByIndex(index) ==
  /\ mutex = NoCaller
  /\ IF RefreshOneError(index) # "" THEN UNCHANGED tasks
     ELSE Spawn(index, configs[index + 1])
  /\ UNCHANGED <<tmVars, mutex, acq>>

\* the call together with the value it hands back to its caller
RefreshOne(index) ==
  /\ RefreshSingleTokenByIndex(index)
  /\ reply' = Reply("refreshOne", index, RefreshOneError(index))
  /\ UNCHANGED <<asConfigs, saved, fac, hist, sweep, loader, client>>

\* ----------------------------------------------- GetAllCacheStatus -------
\* a status that reads the entry of the position after its own
TokenCacheStatusNext(i) ==
  IF Has(cache, CacheKey(i + 1))
  THEN [Index |-> i, Cached |-> TRUE,
        Token |-> cache[CacheKey(i + 1)].Token,
        UsageInfo |-> cache[CacheKey(i + 1)].UsageInfo,
        Available |-> cache[CacheKey(i + 1)].Available,
        CachedAt |-> cache[CacheKey(i + 1)].CachedAt,
        LastUsed |-> cache[CacheKey(i + 1)].LastUsed]
  ELSE [Index |-> i, Cached |-> FALSE]

\* lines 1412-1428: the status of position i; an uncached position keeps
\* the zero value of every other field
TokenCacheStatus(i) ==
  IF Has(cache, CacheKey(i))
  THEN [Index |-> i, Cached |-> TRUE,
        Token |-> cache[CacheKey(i)].Token,
        UsageInfo |-> cache[CacheKey(i)].UsageInfo,
        Available |-> cache[CacheKey(i)].Available,
        CachedAt |-> cache[CacheKey(i)].CachedAt,
        LastUsed |-> cache[CacheKey(i)].LastUsed]
  ELSE [Index |-> i, Cached |-> FALSE]

\* GetAllCacheStatus, under RLock from its first line to its return
GetAllCacheStatus ==
  /\ mutex = NoCaller
  /\ reply' = Reply("allStatuses",
                    [n \in 1..Len(configs) |-> TokenCacheStatus(n - 1)], "")
  /\ UNCHANGED <<tmVars, mutex, acq, tasks, asConfigs, saved, fac, hist, sweep, loader, client>>

\* ------------------------------------------------ RefreshAllTokens -------
\* lines 1590-1604: the snapshot under RLock and the start of the goroutine
RefreshAllTokens ==
  /\ sweep.pc = "idle"
  /\ mutex = NoCaller
  /\ sweep' = [pc |-> "resolve", snap |-> configs, i |-> 1, index |-> 0]
  /\ UNCHANGED <<tmVars, mutex, acq, tasks>>

\* lines 1621-1629: the first position whose credential has this refresh token
Resolve(refreshToken) ==
  LET found == {j \in 0..(Len(configs) - 1) : configs[j + 1].RefreshToken = refreshToken}
  IN IF found = {} THEN -1 ELSE CHOOSE j \in found : \A k \in found : j <= k

\* lines 1610-1647: one round of the goroutine's loop, up to its call of
\* refreshSingleTokenAsync(currentIndex, snapshot.cfg), which it runs itself
SweepResolve ==
  /\ sweep.pc = "resolve"
  /\ sweep.i <= Len(sweep.snap)
  /\ LET snapshot == sweep.snap[sweep.i] IN
     IF snapshot.Disabled
     THEN /\ sweep' = [sweep EXCEPT !.i = @ + 1]
          /\ UNCHANGED tasks
     ELSE /\ mutex = NoCaller
          /\ IF Resolve(snapshot.RefreshToken) < 0
             THEN /\ sweep' = [sweep EXCEPT !.i = @ + 1]
                  /\ UNCHANGED tasks
             ELSE /\ Room
                  /\ Spawn(Resolve(snapshot.RefreshToken), snapshot)
                  /\ sweep' = [sweep EXCEPT !.pc = "wait",
                                            !.index = Resolve(snapshot.RefreshToken)]
  /\ UNCHANGED <<tmVars, mutex, acq>>

\* the call of refreshSingleTokenAsync has returned; lines 1649-1652
SweepNext ==
  /\ sweep.pc = "wait"
  /\ \A t \in BagToSet(tasks) :
       ~(t.index = sweep.index /\ t.rt = sweep.snap[sweep.i].RefreshToken)
  /\ sweep' = [sweep EXCEPT !.pc = "resolve", !.i = @ + 1]
  /\ UNCHANGED <<tmVars, mutex, acq, tasks>>

\* line 1655: the loop is over and the goroutine ends
SweepEnd ==
  /\ sweep.pc = "resolve"
  /\ sweep.i > Len(sweep.snap)
  /\ sweep' = SweepIdle
  /\ UNCHANGED <<tmVars, mutex, acq, tasks>>

\* ------------------------------------------------- AuthService facade ----
\* The facade takes no lock of its own. Each call is cut where it can block:
\* at the pool manager's mutex and at the file write.

\* records the facade is handed by the request handlers
BadEmpty == AuthConfig("", AuthMethodSocial, "", "", FALSE)
BadIdC == AuthConfig("rtB", AuthMethodIdC, "", "", FALSE)
Untyped == AuthConfig("rtA", "", "", "", FALSE)
FacadeInputs == {CredB, BadEmpty, BadIdC, Untyped}

\* a validation that looks at the refresh material only
RejectedLax(config) == config.RefreshToken = ""

\* lines 80-90 of AuthService.AddConfig
Rejected(config) ==
  \/ config.RefreshToken = ""
  \/ /\ config.AuthType = AuthMethodIdC
     /\ config.ClientID = "" \/ config.ClientSecret = ""
Defaulted(config) ==
  IF config.AuthType = "" THEN [config EXCEPT !.AuthType = AuthMethodSocial] ELSE config

InvalidCredential == "InvalidCredential"
IndexOutOfRange == "IndexOutOfRange"
PersistenceFailed == "PersistenceFailed"

\* caller f is in a call; poolBefore keeps the pool's list at its start
Enter(f, rec) == fac' = [fac EXCEPT ![f] = [rec EXCEPT !.poolBefore = configs]]

\* the call of caller f returns err to its handler
Leave(f, op, err) ==
  /\ fac' = [fac EXCEPT ![f] = FacIdle]
  /\ reply' = Reply(op, f, err)

\* as.tokenManager = NewTokenManager(oldConfigs): the goroutines and callers
\* of the manager it replaces go on against that object, which no later
\* call reaches
ReplaceManager(cfgs) ==
  /\ configs' = cfgs
  /\ configOrder' = generateConfigOrder(cfgs)
  /\ cache' = EmptyMap
  /\ currentIndex' = 0
  /\ exhausted' = {}
  /\ refreshing' = {}
  /\ mutex' = NoCaller
  /\ tasks' = EmptyBag
  /\ acq' = [p \in Callers |-> IF acq[p].pc = "idle" THEN acq[p] ELSE Idle]

\* AuthService.AddConfig lines 80-97
FacadeAddBegin(f, config) ==
  /\ fac[f].pc = "idle"
  /\ IF Rejected(config)
     THEN /\ Leave(f, "add", InvalidCredential)
          /\ UNCHANGED asConfigs
     ELSE /\ Enter(f, [FacIdle EXCEPT !.pc = "addPool", !.cfg = Defaulted(config),
                                      !.oldConfigs = asConfigs])
          /\ asConfigs' = Append(asConfigs, Defaulted(config))
          /\ UNCHANGED reply
  /\ UNCHANGED <<tmVars, mutex, acq, tasks, saved, hist, sweep, loader, client>>

\* line 98: as.tokenManager.AddConfig(config)
FacadeAddPool(f) ==
  /\ fac[f].pc = "addPool"
  /\ AddConfig(fac[f].cfg)
  /\ fac' = [fac EXCEPT ![f].pc = "save", ![f].op = "add"]
  /\ UNCHANGED <<asConfigs, saved, obsVars, sweep, loader, client>>

\* AuthService.RemoveConfig lines 119-129
FacadeRemoveBegin(f, index) ==
  /\ fac[f].pc = "idle"
  /\ IF ~InRange(index, asConfigs)
     THEN /\ Leave(f, "remove", IndexOutOfRange)
          /\ UNCHANGED asConfigs
     ELSE /\ Enter(f, [FacIdle EXCEPT !.pc = "removePool", !.index = index,
                                      !.oldConfigs = asConfigs])
          /\ asConfigs' = RemoveAt(asConfigs, index)
          /\ UNCHANGED reply
  /\ UNCHANGED <<tmVars, mutex, acq, tasks, saved, hist, sweep, loader, client>>

\* lines 131-139: as.tokenManager.RemoveConfig(index) and its error path
FacadeRemovePool(f) ==
  /\ fac[f].pc = "removePool"
  /\ RemoveConfig(fac[f].index)
  /\ IF ~InRange(fac[f].index, configs)
     THEN /\ asConfigs' = fac[f].oldConfigs
          /\ Leave(f, "remove", IndexOutOfRange)
     ELSE /\ fac' = [fac EXCEPT ![f].pc = "save", ![f].op = "remove"]
          /\ UNCHANGED <<asConfigs, reply>>
  /\ UNCHANGED <<saved, hist, sweep, loader, client>>

\* lines 100-115 and 141-156: SaveConfigs(as.configs) succeeds
FacadeSaved(f) ==
  /\ fac[f].pc = "save"
  /\ saved' = asConfigs
  /\ Leave(f, fac[f].op, "")
  /\ UNCHANGED <<tmVars, mutex, acq, tasks, asConfigs, hist, sweep, loader, client>>

\* lines 101-109 and 142-150: SaveConfigs fails, the call rolls back
FacadeSaveFailed(f) ==
  /\ fac[f].pc = "save"
  /\ asConfigs' = fac[f].oldConfigs
  /\ ReplaceManager(fac[f].oldConfigs)
  /\ Leave(f, fac[f].op, PersistenceFailed)
  /\ UNCHANGED <<saved, hist, sweep, loader, client>>

\* ------------------------------------------------------------- time ------
\* LastUsed is only ever reported: never, now, or some time ago
Earlier(t) == IF t = ZeroTime THEN ZeroTime ELSE -1

Aged(ct) ==
  IF ct.CachedAt = -Horizon THEN [ct EXCEPT !.LastUsed = Earlier(ct.LastUsed)]
  ELSE [ct EXCEPT !.CachedAt = ct.CachedAt - 1,
                  !.Token.ExpiresAt = ct.Token.ExpiresAt - 1,
                  !.LastUsed = Earlier(ct.LastUsed)]

\* one tick of the clock, seen from the new present
Tick ==
  /\ mutex = NoCaller
  /\ cache' = [k \in DOMAIN cache |-> Aged(cache[k])]
  /\ UNCHANGED <<configs, configOrder, currentIndex, exhausted, refreshing, mutex, acq, tasks>>

\* ------------------------------------------------------------- spec ------
Indices == -1..MaxLen
MainCallers == {1}

Next ==
  \/ Tick /\ UNCHANGED rest
  \/ \E p \in MainCallers : AcquireBegin(p) /\ UNCHANGED rest
  \/ \E p \in MainCallers : AcquireIter(p) /\ UNCHANGED rest
  \/ \E p \in MainCallers, out \in WholeOutcomes : AcquireResume(p, out) /\ UNCHANGED rest
  \/ \E t \in BagToSet(tasks) : TaskValidate(t) /\ UNCHANGED rest
  \/ \E t \in BagToSet(tasks) : TaskFail(t) /\ UNCHANGED rest
  \/ \E t \in BagToSet(tasks), out \in WholeOutcomes : TaskCommit(t, out) /\ UNCHANGED rest
  \/ \E t \in BagToSet(tasks) : TaskClear(t) /\ UNCHANGED rest
  \/ \E cfg \in PoolInputs : Len(configs) < MaxLen /\ AddConfig(cfg) /\ UNCHANGED rest
  \/ \E index \in Indices : RemoveConfig(index) /\ UNCHANGED rest

Spec == Init /\ [][Next]_vars

\* Every answer of the gateway and of the quota inspector, fractional amounts
\* included, and refreshes on request, on a pool that does not change
NextQuota ==
  \/ Tick /\ UNCHANGED rest
  \/ \E p \in MainCallers : AcquireBegin(p) /\ UNCHANGED rest
  \/ \E p \in MainCallers : AcquireIter(p) /\ UNCHANGED rest
  \/ \E p \in MainCallers, out \in Outcomes : AcquireResume(p, out) /\ UNCHANGED rest
  \/ \E t \in BagToSet(tasks) : TaskValidate(t) /\ UNCHANGED rest
  \/ \E t \in BagToSet(tasks) : TaskFail(t) /\ UNCHANGED rest
  \/ \E t \in BagToSet(tasks), out \in Outcomes : TaskCommit(t, out) /\ UNCHANGED rest
  \/ \E t \in BagToSet(tasks) : TaskClear(t) /\ UNCHANGED rest
  \/ \E index \in Indices : Room /\ RefreshSingleTokenByIndex(index) /\ UNCHANGED rest

InitQuota ==
  /\ NewAuthService(<<CredA, CredB>>)
  /\ mutex = NoCaller
  /\ acq = [p \in Callers |-> Idle]
  /\ tasks = EmptyBag
  /\ reply = NoReply
  /\ hist = <<>>
  /\ sweep = SweepIdle
  /\ loader = LoaderIdle
  /\ client = ClientIdle

SpecQuota == InitQuota /\ [][NextQuota]_vars

\* The facade under two concurrent request handlers, one adding and one
\* removing, with the refreshes the additions start
AddHandlers == {1}
RemoveHandlers == {2}

NextFacade ==
  \/ \E f \in AddHandlers, config \in FacadeInputs :
        Len(asConfigs) < MaxLen /\ FacadeAddBegin(f, config)
  \/ \E f \in FacadeCallers : Len(configs) < MaxLen /\ FacadeAddPool(f)
  \/ \E f \in RemoveHandlers, index \in Indices : FacadeRemoveBegin(f, index)
  \/ \E f \in FacadeCallers : FacadeRemovePool(f)
  \/ \E f \in FacadeCallers : FacadeSaved(f)
  \/ \E f \in FacadeCallers : FacadeSaveFailed(f)
  \/ \E t \in BagToSet(tasks) : TaskValidate(t) /\ UNCHANGED rest
  \/ \E t \in BagToSet(tasks) : TaskFail(t) /\ UNCHANGED rest
  \/ \E t \in BagToSet(tasks) : TaskCommit(t, Refreshed(UsageOne)) /\ UNCHANGED rest
  \/ \E t \in BagToSet(tasks) : TaskClear(t) /\ UNCHANGED rest

SpecFacade == Init /\ [][NextFacade]_vars

\* The state a program that refreshed every position of `cfgs` is in:
\* position i holds a fresh entry of its credential with amount(i) left
Entry(cfg, amount) ==
  CachedToken(cfg.RefreshToken,
              UsageLimits(<<Breakdown("CREDIT", amount, 0, NoFreeTrial)>>), amount)

Warmed(cfgs, filled, amount) ==
  /\ configs = cfgs
  /\ configOrder = generateConfigOrder(cfgs)
  /\ cache = [k \in {CacheKey(i) : i \in filled} |->
               Entry(IF k[2] < Len(cfgs) THEN cfgs[k[2] + 1] ELSE CredA, amount[k[2]])]
  /\ asConfigs = cfgs
  /\ saved = cfgs
  /\ fac = [f \in FacadeCallers |-> FacIdle]
  /\ mutex = NoCaller
  /\ acq = [p \in Callers |-> Idle]
  /\ tasks = EmptyBag
  /\ reply = NoReply
  /\ hist = <<>>
  /\ sweep = SweepIdle
  /\ loader = LoaderIdle
  /\ client = ClientIdle

Pools(S, lo, hi) == UNION {[1..n -> S] : n \in lo..hi}

\* Acquire calls one after another, nothing else, on a pool whose
\* credentials are all enabled and hold more than the calls can use up
AmpleAmounts == {(MaxLen + 1) * Unit, (MaxLen + 2) * Unit}

InitSeq ==
  \E cfgs \in Pools({CredA, CredB}, 2, MaxLen) :
    \E amount \in [0..(Len(cfgs) - 1) -> AmpleAmounts], cursor \in 0..(Len(cfgs) - 1) :
      /\ Warmed(cfgs, 0..(Len(cfgs) - 1), amount)
      /\ currentIndex = cursor
      /\ exhausted = {}
      /\ refreshing = {}

\* hist takes the position whose token the completing call returns
NextSeq ==
  \/ \E p \in MainCallers :
       /\ Len(hist) < Len(configs)
       /\ AcquireBegin(p)
       /\ UNCHANGED rest
  \/ \E p \in MainCallers :
       /\ AcquireIter(p)
       /\ hist' = IF acq'[p].ret = "token" THEN Append(hist, currentIndex) ELSE hist
       /\ UNCHANGED <<facVars, reply, sweep, loader, client>>

SpecSeq == InitSeq /\ [][NextSeq]_vars

\* Removal alone, from every state of cache and marks a pool of up to
\* MaxLen + 1 credentials can be in; position i holds i + 1 uses, and one
\* entry may sit past the end of the list (a late commit after a removal)
InitRemove ==
  \E cfgs \in Pools(PoolInputs, 1, MaxLen + 1) :
    \E filled \in SUBSET (0..Len(cfgs)), ex \in SUBSET (0..(Len(cfgs) - 1)),
       cursor \in 0..(Len(cfgs) - 1) :
      /\ Warmed(cfgs, filled, [i \in 0..Len(cfgs) |-> (i + 1) * Unit])
      /\ currentIndex = cursor
      /\ exhausted = {CacheKey(i) : i \in ex}
      /\ refreshing = {}

NextRemove ==
  \E index \in -1..(MaxLen + 1) : RemoveConfig(index) /\ UNCHANGED rest

SpecRemove == InitRemove /\ [][NextRemove]_vars

\* A fixed pool in which the credential rtA always refreshes to a usable
\* entry and no other does; callers keep acquiring, time keeps passing, and
\* the mutex, the goroutine scheduler and the gateway let every step that
\* is possible again and again happen
LiveOutcomes(rt) ==
  IF rt = "rtA" THEN {Refreshed(UsageOne), Refreshed(UsageTwo)}
  ELSE {RefreshFailed, Refreshed(UsageNone)}

LivePools == {<<CredA>>, <<CredB, CredA>>, <<CredA, CredC>>}

InitLive ==
  /\ \E cfgs \in LivePools : NewAuthService(cfgs)
  /\ mutex = NoCaller
  /\ acq = [p \in Callers |-> Idle]
  /\ tasks = EmptyBag
  /\ reply = NoReply
  /\ hist = <<>>
  /\ sweep = SweepIdle
  /\ loader = LoaderIdle
  /\ client = ClientIdle

LiveBegin(p) == AcquireBegin(p) /\ UNCHANGED rest
LiveIter(p) == AcquireIter(p) /\ UNCHANGED rest
LiveResume(p) ==
  \E out \in LiveOutcomes(acq[p].rt) : AcquireResume(p, out) /\ UNCHANGED rest
LiveValidate(t) == TaskValidate(t) /\ UNCHANGED rest
LiveCommit(t) ==
  \E out \in LiveOutcomes(t.rt) : TaskCommit(t, out) /\ UNCHANGED rest
LiveClear(t) == TaskClear(t) /\ UNCHANGED rest
LiveTick == Tick /\ UNCHANGED rest

NextLive ==
  \/ LiveTick
  \/ \E p \in Callers : LiveBegin(p)
  \/ \E p \in Callers : LiveIter(p)
  \/ \E p \in Callers : LiveResume(p)
  \/ \E t \in BagToSet(tasks) : LiveValidate(t)
  \/ \E t \in BagToSet(tasks) : LiveCommit(t)
  \/ \E t \in BagToSet(tasks) : LiveClear(t)

\* every goroutine refreshSingleTokenAsync can be started as
LiveTasks ==
  UNION {{AsyncTask(i, cfgs[i + 1]) : i \in {j \in 0..(Len(cfgs) - 1) : ~cfgs[j + 1].Disabled}} :
           cfgs \in LivePools}

\* the task started as t0 takes its next step, wherever it stands
LiveTaskStep(t0) ==
  \E t \in BagToSet(tasks) :
    /\ t.index = t0.index /\ t.rt = t0.rt
    /\ LiveValidate(t) \/ LiveCommit(t) \/ LiveClear(t)

SpecLive ==
  /\ InitLive /\ [][NextLive]_vars
  /\ SF_vars(LiveTick)
  /\ \A p \in Callers :
       SF_vars(LiveBegin(p)) /\ WF_vars(LiveIter(p)) /\ SF_vars(LiveResume(p))
  /\ \A t0 \in LiveTasks : SF_vars(LiveTaskStep(t0))

\* The pool of SpecLive next to every pool that differs from it only in the
\* contents of tm.exhausted (lines 949-957): a mark may appear on any
\* position at any time, whatever the selection did
BlindKeys == {CacheKey(i) : i \in 0..(MaxLen - 1)}
VaryExhausted(k) ==
  /\ k \notin exhausted
  /\ exhausted' = exhausted \cup {k}
  /\ UNCHANGED <<configs, configOrder, cache, currentIndex, refreshing, mutex, acq, tasks>>
  /\ UNCHANGED rest
NextBlind ==
  \/ NextLive
  \/ \E k \in BlindKeys : k[2] < Len(configs) /\ VaryExhausted(k)
SpecBlind == InitLive /\ [][NextBlind]_vars

\* The liveness setting with the pool changing under the refreshes:
\* AddConfig and RemoveConfig are called at any time, by nobody's duty
MarkerAdd == \E cfg \in {CredA} : Len(configs) < MaxLen /\ AddConfig(cfg) /\ UNCHANGED rest
MarkerRemove == \E index \in Indices : RemoveConfig(index) /\ UNCHANGED rest

NextMarker ==
  \/ LiveTick
  \/ \E p \in MainCallers : LiveBegin(p)
  \/ \E p \in MainCallers : LiveIter(p)
  \/ \E p \in MainCallers : LiveResume(p)
  \/ \E t \in BagToSet(tasks) : LiveValidate(t)
  \/ \E t \in BagToSet(tasks) : LiveCommit(t)
  \/ \E t \in BagToSet(tasks) : LiveClear(t)
  \/ MarkerAdd
  \/ MarkerRemove

\* every goroutine refreshSingleTokenAsync can be started as, at any position
MarkerTasks ==
  {AsyncTask(i, cfg) : i \in 0..(MaxLen - 1), cfg \in {c \in PoolInputs : ~c.Disabled}}

SpecMarker ==
  /\ InitLive /\ [][NextMarker]_vars
  /\ \A p \in MainCallers : WF_vars(LiveIter(p)) /\ SF_vars(LiveResume(p))
  /\ \A t0 \in MarkerTasks : SF_vars(LiveTaskStep(t0))

\* RefreshAllTokens against removals, on pools of any of the credentials
sweepRest == <<asConfigs, saved, fac, reply, hist, loader, client>>

InitSweep ==
  /\ \E cfgs \in Pools(PoolInputs, 1, MaxLen) : NewAuthService(cfgs)
  /\ mutex = NoCaller
  /\ acq = [p \in Callers |-> Idle]
  /\ tasks = EmptyBag
  /\ reply = NoReply
  /\ hist = <<>>
  /\ sweep = SweepIdle
  /\ loader = LoaderIdle
  /\ client = ClientIdle

NextSweep ==
  \/ RefreshAllTokens /\ UNCHANGED sweepRest
  \/ SweepResolve /\ UNCHANGED sweepRest
  \/ SweepNext /\ UNCHANGED sweepRest
  \/ SweepEnd /\ UNCHANGED sweepRest
  \/ \E t \in BagToSet(tasks) : TaskValidate(t) /\ UNCHANGED rest
  \/ \E t \in BagToSet(tasks) : TaskFail(t) /\ UNCHANGED rest
  \/ \E t \in BagToSet(tasks), out \in WholeOutcomes : TaskCommit(t, out) /\ UNCHANGED rest
  \/ \E t \in BagToSet(tasks) : TaskClear(t) /\ UNCHANGED rest
  \/ \E index \in Indices : RemoveConfig(index) /\ UNCHANGED rest
  \/ \E index \in Indices : BagCardinality(tasks) < MaxManual /\ RefreshOne(index)

SpecSweep == InitSweep /\ [][NextSweep]_vars

\* The dashboard reads the statuses while calls, refreshes and removals go on
StatusPools == {<<CredA, CredB>>}
\* a refresh brings two uses, so that an entry outlives a call
StatusOutcomes == {Refreshed(UsageTwo)}

InitStatus ==
  /\ \E cfgs \in StatusPools : NewAuthService(cfgs)
  /\ mutex = NoCaller
  /\ acq = [p \in Callers |-> Idle]
  /\ tasks = EmptyBag
  /\ reply = NoReply
  /\ hist = <<>>
  /\ sweep = SweepIdle
  /\ loader = LoaderIdle
  /\ client = ClientIdle

NextStatus ==
  \/ Tick /\ UNCHANGED rest
  \/ \E p \in MainCallers : AcquireBegin(p) /\ UNCHANGED rest
  \/ \E p \in MainCallers : AcquireIter(p) /\ UNCHANGED rest
  \/ \E p \in MainCallers, out \in StatusOutcomes : AcquireResume(p, out) /\ UNCHANGED rest
  \/ \E t \in BagToSet(tasks) : TaskValidate(t) /\ UNCHANGED rest
  \/ \E t \in BagToSet(tasks) : TaskFail(t) /\ UNCHANGED rest
  \/ \E t \in BagToSet(tasks), out \in StatusOutcomes : TaskCommit(t, out) /\ UNCHANGED rest
  \/ \E t \in BagToSet(tasks) : TaskClear(t) /\ UNCHANGED rest
  \/ \E index \in Indices : RemoveConfig(index) /\ UNCHANGED rest
  \/ GetAllCacheStatus

SpecStatus == InitStatus /\ [][NextStatus]_vars

\* Two callers, the dashboard and the configuration handlers share the
\* mutex. The handlers are called while a caller is inside the network call
\* of its synchronous refresh, each once; hist takes what completed then.
LockOutcomes == {Refreshed(UsageOne)}

InitLock ==
  /\ NewAuthService(<<CredA>>)
  /\ mutex = NoCaller
  /\ acq = [p \in Callers |-> Idle]
  /\ tasks = EmptyBag
  /\ reply = NoReply
  /\ hist = {}
  /\ sweep = SweepIdle
  /\ loader = LoaderIdle
  /\ client = ClientIdle

Waiting == {p \in Callers : acq[p].pc = "net"}
During(op) ==
  /\ Waiting # {}
  /\ op \notin hist
  /\ hist' = hist \cup {op}
  /\ UNCHANGED <<asConfigs, saved, fac, reply, sweep, loader, client>>

NextLock ==
  \/ \E p \in Callers : AcquireBegin(p) /\ UNCHANGED rest
  \/ \E p \in Callers :
       /\ AcquireIter(p)
       /\ hist' = IF acq'[p].pc = "idle" /\ Waiting # {} THEN hist \cup {"acquire"} ELSE hist
       /\ UNCHANGED <<asConfigs, saved, fac, reply, sweep, loader, client>>
  \/ \E p \in Callers, out \in LockOutcomes : AcquireResume(p, out) /\ UNCHANGED rest
  \/ \E t \in BagToSet(tasks) : TaskValidate(t) /\ UNCHANGED rest
  \/ \E t \in BagToSet(tasks) : TaskFail(t) /\ UNCHANGED rest
  \/ \E t \in BagToSet(tasks), out \in LockOutcomes : TaskCommit(t, out) /\ UNCHANGED rest
  \/ \E t \in BagToSet(tasks) : TaskClear(t) /\ UNCHANGED rest
  \/ \E cfg \in PoolInputs : Len(configs) < MaxLen /\ AddConfig(cfg) /\ During("add")
  \/ \E index \in Indices : RemoveConfig(index) /\ During("remove")
  \/ Waiting # {} /\ reply = NoReply /\ GetAllCacheStatus

SpecLock == InitLock /\ [][NextLock]_vars

\* Calls one after another, by either caller, on the pool [rtC (disabled),
\* rtB, rtA] whose only entry is a fresh one of three uses under position 1;
\* hist takes, for every call that ends, the position it was served from
\* (-1 if it was turned away) and what that position has left
MaxCalls == 5
ScenarioPool == <<CredC, CredB, CredA>>
Served(pos, left) == [pos |-> pos, left |-> left]
TurnedAway == Served(-1, 0)

InitScenario ==
  /\ Warmed(ScenarioPool, {1}, [i \in 0..2 |-> 3 * Unit])
  /\ currentIndex = 0
  /\ exhausted = {}
  /\ refreshing = {}

\* what the step that ends the call of caller p at position pos adds to hist
Outcome(p, pos) ==
  IF acq'[p].pc # "idle" THEN hist
  ELSE IF acq'[p].ret = "token"
       THEN Append(hist, Served(pos, cache'[CacheKey(pos)].Available))
       ELSE Append(hist, TurnedAway)

NextScenario ==
  \/ \E p \in Callers :
       /\ Len(hist) < MaxCalls
       /\ \A q \in Callers : acq[q].pc = "idle"
       /\ AcquireBegin(p)
       /\ UNCHANGED rest
  \/ \E p \in Callers :
       /\ AcquireIter(p)
       /\ hist' = Outcome(p, currentIndex)
       /\ UNCHANGED <<facVars, reply, sweep, loader, client>>
  \/ \E p \in Callers, out \in Outcomes :
       /\ AcquireResume(p, out)
       /\ hist' = Outcome(p, acq[p].index)
       /\ UNCHANGED <<facVars, reply, sweep, loader, client>>

SpecScenario == InitScenario /\ [][NextScenario]_vars

\* CalculateAvailableCount on every breakdown list of up to two resources,
\* over-used limits and free trials of every status included
ResourceTypes == {"CREDIT", "AGENTIC_REQUEST"}
Amounts == {0, 1, 4}
FreeTrials ==
  {NoFreeTrial} \cup
  {[FreeTrialStatus |-> st, UsageLimitWithPrecision |-> 2, CurrentUsageWithPrecision |-> u] :
     st \in {"ACTIVE", "EXPIRED"}, u \in {0, 5}}
Breakdowns ==
  {Breakdown(type, limit, used, ft) :
     type \in ResourceTypes, limit \in Amounts, used \in Amounts, ft \in FreeTrials}
UsageInputs == {UsageLimits(list) : list \in Pools(Breakdowns, 0, 2)}

InitCount ==
  /\ NewAuthService(<<>>)
  /\ mutex = NoCaller
  /\ acq = [p \in Callers |-> Idle]
  /\ tasks = EmptyBag
  /\ hist = <<>>
  /\ sweep = SweepIdle
  /\ loader = LoaderIdle
  /\ client = ClientIdle
  /\ \E usage \in UsageInputs : reply = Reply("CheckUsageLimits", usage, "")

\* lines 1243-1246: the count taken from the answer of the quota inspector
CountAvailable ==
  /\ reply.op = "CheckUsageLimits"
  /\ reply' = Reply("CalculateAvailableCount",
                    [usage |-> reply.arg, available |-> CalculateAvailableCount(reply.arg)], "")
  /\ UNCHANGED <<tmVars, mutex, acq, tasks, asConfigs, saved, fac, hist, sweep, loader, client>>

NextCount == CountAvailable

SpecCount == InitCount /\ [][NextCount]_vars

\* ------------------------------------------------ ClientTokenManager -----
\* entries of the allow-list and request counts the model lets grow to
MaxTokens == 2
MaxRequests == 2

ClientToken(token, disabled) == [Token |-> token, Disabled |-> disabled]
TokenInputs == {"", "t1", "t2"}
TokenIndices == -1..MaxTokens

\* m.stats[token], nil when the token has none
NoStats == [requestCount |-> 0, lastUsedAt |-> ZeroTime]
StatsOf(token) == IF Has(client.stats, token) THEN client.stats[token] ELSE NoStats

\* what the latest call of the manager returned
ClientReturn(op, arg, ok) == [op |-> op, arg |-> arg, ok |-> ok]

\* NewClientTokenManager: the list client_tokens.json holds (entries with
\* the same value included), or the one token of KIRO_CLIENT_TOKEN
LoadedTokens ==
  {<<>>, <<ClientToken("t1", FALSE)>>,
   <<ClientToken("t1", TRUE), ClientToken("t1", FALSE)>>}

InitClient ==
  /\ NewAuthService(<<>>)
  /\ mutex = NoCaller
  /\ acq = [p \in Callers |-> Idle]
  /\ tasks = EmptyBag
  /\ reply = NoReply
  /\ hist = <<>>
  /\ sweep = SweepIdle
  /\ loader = LoaderIdle
  /\ \E tokens \in LoadedTokens :
       client = [pc |-> "ready", tokens |-> tokens, stats |-> EmptyMap,
                 ret |-> ClientReturn("NewClientTokenManager", "", TRUE)]

clientRest ==
  <<tmVars, mutex, acq, tasks, asConfigs, saved, fac, reply, hist, sweep, loader>>

\* a match on the value alone
MatchesValue(t, token) == t.Token = token

\* line 130: the entry lets the token in
Matches(t, token) == t.Token = token /\ ~t.Disabled

\* ValidateToken(token)
ValidateToken(token) ==
  /\ client.pc = "ready"
  /\ IF \E i \in 1..Len(client.tokens) : Matches(client.tokens[i], token)
     THEN /\ StatsOf(token).requestCount < MaxRequests
          /\ client' = [client EXCEPT
                          !.stats = MapPut(@, token,
                                      [requestCount |-> StatsOf(token).requestCount + 1,
                                       lastUsedAt |-> Now]),
                          !.ret = ClientReturn("ValidateToken", token, TRUE)]
     ELSE client' = [client EXCEPT !.ret = ClientReturn("ValidateToken", token, FALSE)]
  /\ UNCHANGED clientRest

\* AddToken(token, name); written tells whether saveConfig succeeds
AddToken(token, written) ==
  /\ client.pc = "ready"
  /\ Len(client.tokens) < MaxTokens
  /\ IF token = "" \/ \E i \in 1..Len(client.tokens) : client.tokens[i].Token = token
     THEN client' = [client EXCEPT !.ret = ClientReturn("AddToken", token, FALSE)]
     ELSE IF written
     THEN client' = [client EXCEPT !.tokens = Append(@, ClientToken(token, FALSE)),
                                   !.ret = ClientReturn("AddToken", token, TRUE)]
     ELSE client' = [client EXCEPT !.ret = ClientReturn("AddToken", token, FALSE)]
  /\ UNCHANGED clientRest

\* RemoveToken(index): the statistics of the entry go before the file is
\* written and do not come back with the list when the write fails
RemoveToken(index, written) ==
  /\ client.pc = "ready"
  /\ IF ~InRange(index, client.tokens)
     THEN client' = [client EXCEPT !.ret = ClientReturn("RemoveToken", index, FALSE)]
     ELSE client' = [client EXCEPT
                       !.stats = IF Has(@, client.tokens[index + 1].Token)
                                 THEN MapDelete(@, client.tokens[index + 1].Token) ELSE @,
                       !.tokens = IF written THEN RemoveAt(@, index) ELSE @,
                       !.ret = ClientReturn("RemoveToken", index, written)]
  /\ UNCHANGED clientRest

\* ToggleToken(index)
ToggleToken(index, written) ==
  /\ client.pc = "ready"
  /\ IF ~InRange(index, client.tokens)
     THEN client' = [client EXCEPT !.ret = ClientReturn("ToggleToken", index, FALSE)]
     ELSE client' = [client EXCEPT
                       !.tokens[index + 1].Disabled = IF written THEN ~@ ELSE @,
                       !.ret = ClientReturn("ToggleToken", index, written)]
  /\ UNCHANGED clientRest

NextClient ==
  \/ \E token \in TokenInputs : ValidateToken(token)
  \/ \E token \in TokenInputs, written \in BOOLEAN : AddToken(token, written)
  \/ \E index \in TokenIndices, written \in BOOLEAN : RemoveToken(index, written)
  \/ \E index \in TokenIndices, written \in BOOLEAN : ToggleToken(index, written)

SpecClient == InitClient /\ [][NextClient]_vars

\* ------------------------------------------------------- loadConfigs -----
\* what a path can hold besides the text of a document
AbsentFile == "absent"
Unreadable == "unreadable"

\* a path KIRO_AUTH_TOKEN may name, and getDefaultConfigPath()
EnvPath == "cfg.json"
DefaultConfigPath == "auth_config.json"
ConfigPaths == {EnvPath, DefaultConfigPath}

\* parseJSONConfig on the texts the inputs are drawn from: an array of
\* records, a single record (wrapped into a list), or an error
ParseError == [err |-> TRUE, configs |-> <<>>]
Parsed(cfgs) == [err |-> FALSE, configs |-> cfgs]
parseJSONConfig(jsonData) ==
  CASE jsonData = "[]" -> Parsed(<<>>)
    [] jsonData = "[A]" -> Parsed(<<CredA>>)
    [] jsonData = "{B}" -> Parsed(<<CredB>>)
    [] jsonData = "[A,B]" -> Parsed(<<CredA, CredB>>)
    [] jsonData = "[C,noToken,untyped,idcNoClient]" ->
         Parsed(<<CredC, BadEmpty, Untyped, BadIdC>>)
    [] OTHER -> ParseError

\* processConfigsForRuntime: drops records without refresh token, IdC
\* records without client id or secret and disabled records; an empty auth
\* type becomes Social
processConfigsForRuntime(cfgs) ==
  SelectSeq([i \in 1..Len(cfgs) |-> Defaulted(cfgs[i])],
            LAMBDA config : ~Rejected(config) /\ ~config.Disabled)

\* os.Stat(path) succeeds on something that is not a directory
IsFile(files, path) == path \in DOMAIN files /\ files[path] # AbsentFile

\* a loader that turns to the default file only when it has no text yet
TriesDefaultIfEmpty(configData, loadedFromFile, jsonData) == configData = ""

\* line 253: whether the default configuration file is tried
TriesDefault(configData, loadedFromFile, jsonData) ==
  configData = "" \/ (~loadedFromFile /\ jsonData # "")

\* lines 269-299: from the text to the returned list
Loaded(configData, path) ==
  IF configData = "" THEN [err |-> FALSE, configs |-> <<>>, path |-> DefaultConfigPath]
  ELSE IF parseJSONConfig(configData).err THEN [err |-> TRUE, configs |-> <<>>, path |-> path]
  ELSE [err |-> FALSE,
        configs |-> processConfigsForRuntime(parseJSONConfig(configData).configs),
        path |-> path]

\* loadConfigs() with KIRO_AUTH_TOKEN = jsonData on the file system files:
\* its error, its list, and configFilePath when it returns
LoadResult(jsonData, files) ==
  LET envIsFile == jsonData # "" /\ IsFile(files, jsonData)
      \* lines 233-250
      first == IF envIsFile
               THEN [data |-> files[jsonData], path |-> jsonData, fromFile |-> TRUE]
               ELSE [data |-> jsonData, path |-> "", fromFile |-> FALSE]
      \* lines 253-266
      second == IF /\ TriesDefault(first.data, first.fromFile, jsonData)
                   /\ IsFile(files, DefaultConfigPath)
                   /\ files[DefaultConfigPath] # Unreadable
                THEN [data |-> files[DefaultConfigPath], path |-> DefaultConfigPath,
                      fromFile |-> TRUE]
                ELSE first
  IN IF envIsFile /\ files[jsonData] = Unreadable
     THEN [err |-> TRUE, configs |-> <<>>, path |-> ""]
     ELSE Loaded(second.data, second.path)

\* the values of KIRO_AUTH_TOKEN and the contents of the two files
EnvValues == {"", EnvPath, "[A]", "not json"}
EnvFileContents == {AbsentFile, Unreadable, "", "{B}"}
DefaultFileContents ==
  {AbsentFile, Unreadable, "", "[]", "[A,B]", "[C,noToken,untyped,idcNoClient]"}

InitLoad ==
  /\ NewAuthService(<<>>)
  /\ mutex = NoCaller
  /\ acq = [p \in Callers |-> Idle]
  /\ tasks = EmptyBag
  /\ reply = NoReply
  /\ hist = <<>>
  /\ sweep = SweepIdle
  /\ client = ClientIdle
  /\ \E jsonData \in EnvValues, e \in EnvFileContents, d \in DefaultFileContents :
       loader = [pc |-> "start", env |-> jsonData,
                 files |-> [path \in ConfigPaths |-> IF path = EnvPath THEN e ELSE d],
                 path |-> "", out |-> Parsed(<<>>)]

\* the call of loadConfigs at the start of NewAuthService
loadConfigs ==
  /\ loader.pc = "start"
  /\ LET r == LoadResult(loader.env, loader.files)
     IN loader' = [loader EXCEPT !.pc = "done", !.path = r.path,
                                 !.out = [err |-> r.err, configs |-> r.configs]]
  /\ UNCHANGED <<tmVars, mutex, acq, tasks, asConfigs, saved, fac, reply, hist, sweep, client>>

NextLoad == loadConfigs

SpecLoad == InitLoad /\ [][NextLoad]_vars

\* ------------------------------------------------------------ claims -----
FacadeQuiet == \A f \in FacadeCallers : fac[f].pc = "idle"

Positions == 0..(Len(configs) - 1)

\* a getBestToken call of caller p completes in this step
Completes(p) == acq[p].pc # "idle" /\ acq'[p].pc = "idle"
Returns(p, kind) == Completes(p) /\ acq'[p].ret = kind

\* the key of the entry the completing call examined last
SelectedKey(p) ==
  IF acq[p].pc = "net" THEN CacheKey(acq[p].index) ELSE CacheKey(currentIndex)

UsableNow(expiresAt, available) == Now <= expiresAt /\ available > 0

\* C1: every cache entry under a position of the list holds a token issued
\* for the credential that occupies the position (no refresh result is
\* committed under a position whose credential changed meanwhile).
IdentitySafety ==
  \A i \in Positions :
    Has(cache, CacheKey(i)) => cache[CacheKey(i)].Token.rt = configs[i + 1].RefreshToken

\* refresh attempts on key k that are past their launch and not yet complete
RECURSIVE Copies(_, _)
Copies(bag, S) ==
  IF S = {} THEN 0
  ELSE LET t == CHOOSE x \in S : TRUE IN bag[t] + Copies(bag, S \ {t})

Outstanding(k) ==
  Cardinality({p \in Callers : acq[p].pc = "net" /\ CacheKey(acq[p].index) = k})
  + Copies(tasks, {t \in BagToSet(tasks) : t.pc = "net" /\ CacheKey(t.index) = k})

AllKeys == {CacheKey(i) : i \in 0..MaxLen}

\* C2: at most one refresh attempt per key is executing, and the key is in
\* the in-flight set while an attempt on it executes.
OneRefreshPerKey ==
  \A k \in AllKeys :
    /\ Outstanding(k) <= 1
    /\ Outstanding(k) >= 1 => k \in refreshing

\* C3: a completing acquire either returns the token of an entry that was
\* usable when selected, or fails with NoTokenAvailable.
UsableOrNoToken ==
  [][\A p \in Callers : Completes(p) =>
        \/ acq'[p].ret = NoTokenAvailable
        \/ /\ acq'[p].ret = "token"
           /\ IF acq[p].pc = "net"
              THEN \E out \in Outcomes :
                     /\ AcquireResume(p, out)
                     /\ ~out.err
                     /\ UsableNow(Now + TokenLifetime, SyncAvailable(out))
              ELSE /\ Has(cache, SelectedKey(p))
                   /\ UsableNow(cache[SelectedKey(p)].Token.ExpiresAt,
                                cache[SelectedKey(p)].Available)]_vars

Floor0(x) == IF x < 0 THEN 0 ELSE x

\* C4: a successful acquire leaves the dispensed entry with
\* max(previous - 1, 0) and every other entry's count unchanged, and never
\* dispenses an entry whose remaining amount is 0.
QuotaMonotone ==
  [][\A p \in Callers : Returns(p, "token") =>
        LET k == SelectedKey(p) IN
        /\ IF acq[p].pc = "net"
           THEN \E out \in Outcomes :
                  /\ AcquireResume(p, out)
                  /\ SyncAvailable(out) # 0
                  /\ cache'[k].Available = Floor0(SyncAvailable(out) - Unit)
           ELSE /\ cache[k].Available # 0
                /\ cache'[k].Available = Floor0(cache[k].Available - Unit)
        /\ \A j \in DOMAIN cache \ {k} : Has(cache', j) /\ cache'[j] = cache[j]]_vars

\* the original round-robin reading of C5: the positions N consecutive
\* calls return are pairwise distinct
RoundRobin ==
  Len(hist) = Len(configs) =>
    \A i, j \in 1..Len(hist) : i # j => hist[i] # hist[j]

\* C5: on a pool of N enabled credentials that stay usable, N consecutive
\* acquire calls with nothing in between all return the token of the one
\* position the cursor was on at the first call; the cursor does not move.
ConsecutiveSamePosition ==
  \A i \in 1..Len(hist) : hist[i] = hist[1] /\ hist[i] = currentIndex

NCallsServed == Len(hist) = Len(configs) /\ Len(configs) >= 2

\* C6: with a credential whose refresh succeeds into a usable entry, under
\* fair scheduling and repeated acquire calls, acquire calls succeed again
\* and again, and no key stays in the in-flight set forever.
EventuallyServed ==
  /\ []<>(\E p \in Callers : acq[p].ret = "token")
  /\ \A k \in AllKeys : []<>(k \notin refreshing)

\* a call came back empty-handed while a refresh of a position was in flight
TurnedAwayDuringRefresh ==
  /\ acq[1].ret = NoTokenAvailable
  /\ refreshing # {}
  /\ tasks # EmptyBag

CacheAt(c, j) == IF Has(c, CacheKey(j)) THEN <<c[CacheKey(j)]>> ELSE <<>>

\* C7: a successful remove(i) on a list of length n leaves n - 1
\* credentials; every position below i keeps its credential and its entry;
\* every position j above i is found at j - 1 with the same entry and the
\* same exhaustion mark; nothing of position i is kept; and no entry is
\* left at position n - 1 or beyond.
RemovalPreservesSurvivors ==
  [][\A i \in -1..(MaxLen + 1) :
       (RemoveConfig(i) /\ i >= 0 /\ i < Len(configs)) =>
         LET n == Len(configs) IN
         /\ Len(configs') = n - 1
         /\ \A j \in 0..(n - 1) :
              /\ j < i => /\ configs'[j + 1] = configs[j + 1]
                          /\ CacheAt(cache', j) = CacheAt(cache, j)
                          /\ CacheKey(j) \in exhausted' <=> CacheKey(j) \in exhausted
              /\ j > i => /\ configs'[j] = configs[j + 1]
                          /\ CacheAt(cache', j - 1) = CacheAt(cache, j)
                          /\ CacheKey(j - 1) \in exhausted' <=> CacheKey(j) \in exhausted
         /\ \A k \in DOMAIN cache' \cup exhausted' : k[2] < n - 1]_vars

\* the middle one of three credentials was removed; both neighbours had
\* entries and the last one was marked exhausted, now at position 1
MiddleRemoved ==
  /\ Len(configs) = 2
  /\ Has(cache, CacheKey(0)) /\ cache[CacheKey(0)].Available = Unit
  /\ Has(cache, CacheKey(1)) /\ cache[CacheKey(1)].Available = 3 * Unit
  /\ exhausted = {CacheKey(1)}

\* C8: a remove whose index is below 0 or not below the length of the list
\* returns IndexOutOfRange; at the facade's own check nothing at all changes,
\* and at the pool manager's check the list, the cache, the cursor, the
\* exhausted set and the in-flight set stay as they are and the facade's
\* list is the one the call started from.
OutOfRangeLeavesAll ==
  [][/\ \A f \in FacadeCallers, index \in Indices :
          (FacadeRemoveBegin(f, index) /\ (index < 0 \/ index >= Len(asConfigs)))
            => /\ reply' = Reply("remove", f, IndexOutOfRange)
               /\ UNCHANGED <<tmVars, asConfigs, saved>>
     /\ \A f \in FacadeCallers :
          (FacadeRemovePool(f) /\ (fac[f].index < 0 \/ fac[f].index >= Len(configs)))
            => /\ reply' = Reply("remove", f, IndexOutOfRange)
               /\ UNCHANGED <<tmVars, saved>>
               /\ asConfigs' = fac[f].oldConfigs]_vars

\* a remove was refused by the facade with entries cached in the pool
OutOfRangeAtFacade ==
  /\ reply = Reply("remove", 2, IndexOutOfRange)
  /\ asConfigs # <<>>
  /\ cache # EmptyMap
  /\ FacadeQuiet

\* C9: when the file write fails, the call returns an error and the
\* facade's list and the pool manager's list are again what they were when
\* the call started.
RollbackRestoresBoth ==
  [][\A f \in FacadeCallers :
       FacadeSaveFailed(f)
         => /\ reply'.err = PersistenceFailed
            /\ asConfigs' = fac[f].oldConfigs
            /\ configs' = fac[f].poolBefore]_vars

\* C10: whenever no facade call is in progress, the facade's list and the
\* pool manager's list are the same sequence of credentials.
IndexAligned == FacadeQuiet => asConfigs = configs

\* C11: a completing acquire never returns the token of a position whose
\* credential is disabled, whatever the cache holds under that position.
DisabledNeverDispensed ==
  [][\A p \in Callers : Returns(p, "token") =>
        LET i == SelectedKey(p)[2] IN
        InRange(i, configs) => ~configs[i + 1].Disabled]_vars

\* C12: an add of a record with empty refresh material, or with the IdC
\* method and no client identifier or no client secret, returns
\* InvalidCredential and changes neither the facade's list, the pool
\* manager's state, the saved configuration nor the set of refresh tasks.
InvalidNeverEnters ==
  [][\A f \in FacadeCallers, config \in FacadeInputs :
       (/\ FacadeAddBegin(f, config)
        /\ \/ config.RefreshToken = ""
           \/ /\ config.AuthType = AuthMethodIdC
              /\ config.ClientID = "" \/ config.ClientSecret = "")
         => /\ reply' = Reply("add", f, InvalidCredential)
            /\ UNCHANGED <<asConfigs, tmVars, saved, tasks>>
            /\ fac'[f].pc = "idle"]_vars

\* an add was refused while the pool held a credential and a cached entry
InvalidRefused ==
  /\ reply = Reply("add", 1, InvalidCredential)
  /\ configs # <<>>
  /\ cache # EmptyMap
  /\ FacadeQuiet

\* C13: every refresh RefreshAllTokens dispatches commits only to the
\* position its credential occupies at the moment of the commit; a removal
\* between the snapshot and the commit never puts the refreshed token under
\* a position held by another credential or by none.
SweepCommitsByIdentity ==
  [][\A t \in BagToSet(tasks), out \in WholeOutcomes :
       TaskCommit(t, out) =>
         /\ InRange(t.index, configs)
         /\ configs[t.index + 1].RefreshToken = t.rt]_vars

\* a refresh of position index is under way
InFlight(index) ==
  \/ CacheKey(index) \in refreshing
  \/ \E t \in BagToSet(tasks) : t.index = index

\* C14: RefreshSingleTokenByIndex returns an error and starts nothing for an
\* index out of range or a disabled credential; otherwise it returns nil and
\* starts one refresh of that position, or none when one is already under way.
RefreshOneAtMostOne ==
  [][\A index \in Indices : RefreshOne(index) =>
       IF ~InRange(index, configs) \/ configs[index + 1].Disabled
       THEN reply'.err # "" /\ tasks' = tasks
       ELSE /\ reply'.err = ""
            /\ tasks' = IF InFlight(index) THEN tasks
                        ELSE tasks (+) SetToBag({AsyncTask(index, configs[index + 1])})]_vars

\* the report in reply is the one GetAllCacheStatus gives in this state
ReportIsCurrent ==
  /\ reply.op = "allStatuses"
  /\ Len(reply.arg) = Len(configs)
  /\ \A i \in 0..(Len(configs) - 1) :
       /\ reply.arg[i + 1].Index = i
       /\ reply.arg[i + 1].Cached = Has(cache, CacheKey(i))
       /\ Has(cache, CacheKey(i)) =>
            /\ reply.arg[i + 1].Token = cache[CacheKey(i)].Token
            /\ reply.arg[i + 1].UsageInfo = cache[CacheKey(i)].UsageInfo
            /\ reply.arg[i + 1].Available = cache[CacheKey(i)].Available
            /\ reply.arg[i + 1].CachedAt = cache[CacheKey(i)].CachedAt
            /\ reply.arg[i + 1].LastUsed = cache[CacheKey(i)].LastUsed

\* C15: GetAllCacheStatus changes nothing of the pool (list, order, cache,
\* cursor, exhausted and in-flight marks), starts no refresh, and reports for
\* every position i of the list the entry stored under i, or "not cached".
StatusReadOnly ==
  [][GetAllCacheStatus =>
       /\ UNCHANGED <<tmVars, tasks, acq, mutex>>
       /\ ReportIsCurrent']_vars

\* a report taken while a refresh is in flight, of a list with one cached
\* position and one that is not, and with an entry left past the list's end
StatusDuringRefresh ==
  /\ ReportIsCurrent
  /\ refreshing # {}
  /\ \E i \in 0..(Len(configs) - 1) : reply.arg[i + 1].Cached
  /\ Has(cache, CacheKey(Len(configs)))

\* a position other than i holds a usable entry of an enabled credential
OtherSupplies(i, tokens) ==
  \E j \in Positions \ {i} :
    /\ ~configs[j + 1].Disabled
    /\ Has(tokens, CacheKey(j))
    /\ IsUsable(tokens[CacheKey(j)])

\* C16: a completing acquire returns a token or fails with NoTokenAvailable,
\* nothing else; and the call whose refresh of a position has just failed
\* does not fail while another position holds a usable entry.
OnlyNoTokenAvailable ==
  [][\A p \in Callers : Completes(p) =>
        /\ acq'[p].ret \in {"token", NoTokenAvailable}
        /\ (acq[p].pc = "net" /\ acq'[p].ret = NoTokenAvailable)
             => ~OtherSupplies(acq[p].index, cache')]_vars

\* C17: no caller holds the mutex while it is inside the network call of
\* its refresh, and whoever holds the mutex is inside a pass of the
\* selection loop; so the mutex a waiting caller gave up is free for other
\* acquire calls, for add, remove and the status report.
NoNetworkUnderLock ==
  /\ \A p \in Callers : acq[p].pc = "net" => mutex # p
  /\ mutex # NoCaller => acq[mutex].pc = "loop"

\* while caller 1 is still inside its network call, another acquire call,
\* an add, a remove and a status report have all taken the mutex and ended
OthersCompleteDuringRefresh ==
  /\ acq[1].pc = "net"
  /\ mutex = NoCaller
  /\ hist = {"acquire", "add", "remove"}
  /\ reply.op = "allStatuses"

\* C18: AddConfig puts the record at position len(list) and its key at the
\* end of the order, leaves every record, cache entry, the cursor, the
\* exhausted and in-flight marks and every call under way as they were,
\* returns with the mutex free, and starts one refresh of the new position
\* exactly when the record is enabled.
AddAppendsOnly ==
  [][\A cfg \in PoolInputs : AddConfig(cfg) =>
       /\ Len(configs') = Len(configs) + 1
       /\ configs'[Len(configs) + 1] = cfg
       /\ \A i \in 1..Len(configs) : configs'[i] = configs[i]
       /\ configOrder' = Append(configOrder, CacheKey(Len(configs)))
       /\ UNCHANGED <<cache, currentIndex, exhausted, refreshing, acq>>
       /\ mutex' = NoCaller
       /\ tasks' = IF cfg.Disabled THEN tasks
                   ELSE tasks (+) SetToBag({AsyncTask(Len(configs), cfg)})]_vars

\* an enabled record has just been added behind a position that holds an
\* entry: the record's first refresh has not yet begun and no entry exists
\* under its key
AddedBehindCached ==
  /\ Len(configs) = 2
  /\ Has(cache, CacheKey(0))
  /\ ~Has(cache, CacheKey(1))
  /\ BagIn(AsyncTask(1, configs[2]), tasks)
  /\ ~configs[2].Disabled

\* C19: on an empty list getBestToken fails at once with NoTokenAvailable:
\* the call is over in the step that began it, the mutex is free again, no
\* refresh is started and the cursor, the cache and the exhausted and
\* in-flight marks are as before.
EmptyPoolFailsAtOnce ==
  [][\A p \in Callers : (AcquireBegin(p) /\ Len(configOrder) = 0) =>
       /\ acq'[p].pc = "idle"
       /\ acq'[p].ret = NoTokenAvailable
       /\ mutex' = NoCaller
       /\ UNCHANGED <<tmVars, tasks>>]_vars

\* a service that started without credentials has turned a call away
EmptyPoolRefused ==
  /\ saved = <<>>
  /\ configs = <<>>
  /\ configOrder = <<>>
  /\ acq[1].pc = "idle"
  /\ acq[1].ret = NoTokenAvailable

\* the first three calls of the scenario are served from position 1 (rtB),
\* which has 2, 1 and 0 uses left after them
ThreeFromB ==
  /\ Len(hist) >= 1 => hist[1] = Served(1, 2 * Unit)
  /\ Len(hist) >= 2 => hist[2] = Served(1, Unit)
  /\ Len(hist) >= 3 => hist[3] = Served(1, 0)

\* a refresh of position 2 (rtA) is under way or has left an entry
RefreshOfCStarted ==
  \/ CacheKey(2) \in refreshing
  \/ Has(cache, CacheKey(2))
  \/ \E t \in BagToSet(tasks) : t.index = 2
  \/ \E p \in Callers : acq[p].pc = "net" /\ acq[p].index = 2

\* the fourth call is served from position 2 or turned away, and it is
\* turned away only after position 2 was tried and left no usable entry
FourthFromCOrNone ==
  /\ Len(hist) >= 4 => hist[4].pos \in {2, -1}
  /\ (Len(hist) = 4 /\ hist[4].pos = 2) =>
       /\ Has(cache, CacheKey(2))
       /\ cache[CacheKey(2)].Token.rt = ScenarioPool[3].RefreshToken
  /\ (Len(hist) = 4 /\ hist[4] = TurnedAway) =>
       /\ {CacheKey(1), CacheKey(2)} \subseteq exhausted
       /\ ~(Has(cache, CacheKey(2)) /\ IsUsable(cache[CacheKey(2)]))

\* C20 as the code runs it: in the scenario [rtC disabled, rtB fresh with
\* three uses, rtA without entry], cursor 0, the first three calls skip
\* position 0 and are served from position 1, leaving 2, 1 and 0 uses; no
\* refresh of position 2 is started before the fourth call begins; the
\* fourth call skips position 1, refreshes position 2 itself and is served
\* from it exactly when that refresh brings a usable entry, and is turned
\* away with NoTokenAvailable otherwise.
ScenarioLazyRefresh ==
  /\ [](/\ ThreeFromB
        /\ FourthFromCOrNone
        /\ (Len(hist) < 3 \/ \A p \in Callers : acq[p].pc = "idle" /\ Len(hist) = 3)
             => ~RefreshOfCStarted)
  /\ [][\A p \in Callers, out \in Outcomes :
          (Len(hist) = 3 /\ AcquireResume(p, out)) =>
             /\ acq[p].index = 2
             /\ IF ~out.err /\ SyncAvailable(out) > 0
                THEN Len(hist') = 4 /\ hist'[4].pos = 2
                ELSE hist' = hist /\ acq'[p].pc = "loop"]_vars

\* C20 as stated: the same, with a refresh of position 2 already scheduled
\* by the time the third call has ended.
ScenarioRefreshAhead ==
  /\ ThreeFromB
  /\ FourthFromCOrNone
  /\ Len(hist) = 3 => RefreshOfCStarted

\* the fourth call has been served from position 2 after three calls served
\* from position 1
FourthServedFromC ==
  /\ Len(hist) = 4
  /\ hist[3] = Served(1, 0)
  /\ hist[4].pos = 2
  /\ CacheKey(0) \in exhausted

\* KIRO_AUTH_TOKEN names a file / holds a text that is no file (an inline
\* configuration); the default file exists and can be read
PathGiven == loader.env # "" /\ IsFile(loader.files, loader.env)
InlineGiven == loader.env # "" /\ ~IsFile(loader.files, loader.env)
DefaultReadable ==
  /\ IsFile(loader.files, DefaultConfigPath)
  /\ loader.files[DefaultConfigPath] # Unreadable

\* the list a text yields: empty for no text, an error for a text that does
\* not parse, else its valid enabled records
FromText(text) ==
  IF text = "" THEN Parsed(<<>>)
  ELSE IF parseJSONConfig(text).err THEN ParseError
  ELSE Parsed(processConfigsForRuntime(parseJSONConfig(text).configs))

\* C21 as the code runs it: the list comes from the file KIRO_AUTH_TOKEN
\* names if that file has any text (an error if it cannot be read); else
\* from the default file if it exists and can be read, whether or not an
\* inline configuration is given; else from the inline configuration; and
\* is empty otherwise.
LoadPrecedence ==
  loader.pc = "done" =>
    IF PathGiven /\ loader.files[loader.env] = Unreadable THEN loader.out.err
    ELSE IF PathGiven /\ loader.files[loader.env] # ""
         THEN loader.out = FromText(loader.files[loader.env])
    ELSE IF DefaultReadable THEN loader.out = FromText(loader.files[DefaultConfigPath])
    ELSE IF InlineGiven THEN loader.out = FromText(loader.env)
    ELSE loader.out = Parsed(<<>>)

\* C21 as stated: the inline configuration first, else the file named,
\* else the default file, else empty.
InlineFirst ==
  loader.pc = "done" =>
    IF InlineGiven THEN loader.out = FromText(loader.env)
    ELSE IF PathGiven
         THEN IF loader.files[loader.env] = Unreadable THEN loader.out.err
              ELSE loader.out = FromText(loader.files[loader.env])
    ELSE IF DefaultReadable THEN loader.out = FromText(loader.files[DefaultConfigPath])
    ELSE loader.out = Parsed(<<>>)

\* an inline configuration was given and the list is the default file's
InlineOverridden ==
  /\ loader.pc = "done"
  /\ loader.env = "[A]"
  /\ loader.files[DefaultConfigPath] = "[A,B]"
  /\ loader.out = Parsed(<<CredA, CredB>>)

\* the places of the credit-type resources in a breakdown list
Credits(list) == {i \in 1..Len(list) : list[i].ResourceType = "CREDIT"}
FirstCredit(list) == list[CHOOSE i \in Credits(list) : \A j \in Credits(list) : i <= j]
TrialPart(b) ==
  IF b.FreeTrialInfo # NoFreeTrial /\ b.FreeTrialInfo.FreeTrialStatus = "ACTIVE"
  THEN b.FreeTrialInfo.UsageLimitWithPrecision - b.FreeTrialInfo.CurrentUsageWithPrecision
  ELSE 0

\* C22: CalculateAvailableCount is 0 for a breakdown list without a
\* credit-type resource, and otherwise max(0, limit - used + (free-trial
\* limit - free-trial used, if a free trial exists and is ACTIVE)) of the
\* credit-type resource; it is never negative.
AvailableIsFlooredSum ==
  reply.op = "CalculateAvailableCount" =>
    LET list == reply.arg.usage.UsageBreakdownList
        sum == FirstCredit(list).UsageLimitWithPrecision
                 - FirstCredit(list).CurrentUsageWithPrecision + TrialPart(FirstCredit(list))
    IN /\ reply.arg.available >= 0
       /\ reply.arg.available =
            IF Credits(list) = {} THEN 0 ELSE IF sum < 0 THEN 0 ELSE sum

\* the count of a list whose credit-type resource comes second and has an
\* active free trial that adds to what the base limit leaves
CountedWithTrial ==
  /\ reply.op = "CalculateAvailableCount"
  /\ Len(reply.arg.usage.UsageBreakdownList) = 2
  /\ Credits(reply.arg.usage.UsageBreakdownList) = {2}
  /\ TrialPart(reply.arg.usage.UsageBreakdownList[2]) > 0
  /\ reply.arg.available = 5

\* the allow-list holds an enabled entry with this value
Allowed(token) ==
  \E i \in 1..Len(client.tokens) :
    client.tokens[i].Token = token /\ ~client.tokens[i].Disabled

\* C23: whatever AddToken, RemoveToken and ToggleToken calls came before,
\* ValidateToken(t) returns true exactly when the allow-list holds an entry
\* with value t that is not disabled; a successful validation adds one to
\* the request count of t and leaves the list and every other token's
\* statistics alone, and a failed one changes neither list nor statistics.
ValidateIffAllowed ==
  [][\A token \in TokenInputs : ValidateToken(token) =>
       /\ client'.ret = ClientReturn("ValidateToken", token, Allowed(token))
       /\ client'.tokens = client.tokens
       /\ IF Allowed(token)
          THEN /\ client'.stats[token].requestCount = StatsOf(token).requestCount + 1
               /\ DOMAIN client'.stats = DOMAIN client.stats \cup {token}
               /\ \A other \in DOMAIN client.stats \ {token} :
                    client'.stats[other] = client.stats[other]
          ELSE client'.stats = client.stats]_vars

\* a token that was let in twice is turned away once its entry has been
\* disabled, while another token of the list is still let in
TurnedAwayAfterToggle ==
  /\ client.pc = "ready"
  /\ client.ret = ClientReturn("ValidateToken", "t1", FALSE)
  /\ Len(client.tokens) = 2
  /\ client.tokens[1] = ClientToken("t1", TRUE)
  /\ client.tokens[2] = ClientToken("t2", FALSE)
  /\ StatsOf("t1").requestCount = 2
  /\ StatsOf("t2").requestCount = 1

\* a refresh attempt on key k has started and has not returned
Attempting(k) ==
  \/ \E p \in Callers : acq[p].pc = "net" /\ CacheKey(acq[p].index) = k
  \/ \E t \in BagToSet(tasks) : CacheKey(t.index) = k

RemoveClearsMarker ==
  [][\A index \in Indices :
       (RemoveConfig(index) /\ InRange(index, configs)) =>
         CacheKey(index) \notin refreshing']_vars

\* C26: in every reachable state the list is empty or the cursor is a
\* position of the list; a successful remove leaves the cursor where it was
\* when that is still a position of the shortened list, and at 0 otherwise.
CursorInRange ==
  /\ [](Len(configOrder) = 0 \/ (0 <= currentIndex /\ currentIndex < Len(configOrder)))
  /\ [][\A index \in Indices :
          (RemoveConfig(index) /\ InRange(index, configs)) =>
            currentIndex' = IF currentIndex < Len(configOrder') THEN currentIndex ELSE 0]_vars

\* a call released the lock to refresh position 1 with the cursor on it;
\* a remove shortened the list to one credential and reset the cursor
CursorResetDuringRefresh ==
  /\ acq[1].pc = "net" /\ acq[1].index = 1
  /\ Len(configOrder) = 1
  /\ currentIndex = 0

\* C27: in every reachable state the remaining amount of every cached entry
\* is at least 0, whatever the quota inspector reported.
AvailableNonNegative ==
  \A k \in DOMAIN cache : cache[k].Available >= 0

\* C28: a key is in the exhausted set only if the last examination of its
\* position by an acquire found it unusable: a call that returns the token
\* of a position leaves the position unmarked, and a key enters the set
\* only in the acquire step that examined it and did not return its token
\* (or by the shift of a remove); the commit of a background refresh takes
\* its key out of the set in the step that writes the entry; a successful
\* remove(i) moves the marks of the positions above i one place down, keeps
\* those below i and keeps nothing of position i.
ExhaustedOnlyUnusable ==
  /\ [][\A p \in Callers : Returns(p, "token") => SelectedKey(p) \notin exhausted']_vars
  /\ [][\A k \in AllKeys : (k \notin exhausted /\ k \in exhausted') =>
          \/ \E p \in Callers : /\ acq[p].pc \in {"loop", "net"}
                                /\ acq'[p] # acq[p]
                                /\ acq'[p].ret # "token"
                                /\ k = SelectedKey(p)
          \/ \E i \in Indices : /\ RemoveConfig(i) /\ InRange(i, configs)
                                /\ k[2] >= i
                                /\ CacheKey(k[2] + 1) \in exhausted]_vars
  /\ [][\A t \in BagToSet(tasks), out \in Outcomes : TaskCommit(t, out) =>
          /\ CacheKey(t.index) \notin exhausted'
          /\ Has(cache', CacheKey(t.index))]_vars
  /\ [][\A i \in Indices : (RemoveConfig(i) /\ InRange(i, configs)) =>
          \A j \in 0..(Len(configs) - 1) :
            /\ j < i => (CacheKey(j) \in exhausted' <=> CacheKey(j) \in exhausted)
            /\ j >= i => (CacheKey(j) \in exhausted' <=>
                            (j + 1 < Len(configs) /\ CacheKey(j + 1) \in exhausted))]_vars

\* caller p is about to examine the cursor's entry, which is older than the
\* TTL and still usable
StaleUsableAtCursor(p) ==
  /\ acq[p].pc = "loop" /\ mutex = p
  /\ acq[p].attempts < Len(configOrder)
  /\ InRange(currentIndex, configOrder)
  /\ Has(cache, CacheKey(currentIndex))
  /\ CacheExpired(cache[CacheKey(currentIndex)])
  /\ IsUsable(cache[CacheKey(currentIndex)])

\* C29: an acquire that finds the cursor's entry stale but usable returns
\* its token in that step, without a network call; it starts one background
\* refresh of the position and marks the key in flight, in the same locked
\* step, if the key was not marked, and starts none if it was.
StaleServedAndRevalidated ==
  [][\A p \in Callers : (StaleUsableAtCursor(p) /\ AcquireIter(p)) =>
       LET k == CacheKey(currentIndex) IN
       /\ acq'[p].pc = "idle" /\ acq'[p].ret = "token"
       /\ cache'[k].Available = cache[k].Available - Unit
       /\ IF k \in refreshing
          THEN UNCHANGED <<refreshing, tasks>>
          ELSE /\ refreshing' = refreshing \cup {k}
               /\ InRange(currentIndex, configs)
               /\ tasks' = tasks (+) SetToBag({AsyncTask(currentIndex, configs[currentIndex + 1])})]_vars

\* caller p is about to examine the cursor's position, whose credential is
\* enabled, which has no entry or a stale unusable one, and whose key is
\* not in flight
NeedsSyncRefresh(p) ==
  /\ acq[p].pc = "loop" /\ mutex = p
  /\ acq[p].attempts < Len(configOrder)
  /\ InRange(currentIndex, configOrder)
  /\ InRange(currentIndex, configs) /\ ~configs[currentIndex + 1].Disabled
  /\ LET k == CacheKey(currentIndex) IN
     /\ ~Has(cache, k) \/ (CacheExpired(cache[k]) /\ ~IsUsable(cache[k]))
     /\ k \notin refreshing

\* C30: an acquire that reaches an enabled position with no entry, or a
\* stale unusable one, and no refresh in flight marks the key and releases
\* the lock, writing nothing else; it resumes with the lock free and taken
\* again, unmarks the key, and when the exchange succeeded commits the
\* entry; when that entry is usable the call returns its token in the same
\* step and leaves the entry with one use less, and otherwise it returns
\* no token in that step.
LazySyncRefresh ==
  /\ [][\A p \in Callers : (NeedsSyncRefresh(p) /\ AcquireIter(p)) =>
          /\ refreshing' = refreshing \cup {CacheKey(currentIndex)}
          /\ acq'[p].pc = "net" /\ acq'[p].index = currentIndex
          /\ acq'[p].rt = configs[currentIndex + 1].RefreshToken
          /\ mutex' = NoCaller
          /\ UNCHANGED <<cache, currentIndex, exhausted, tasks>>]_vars
  /\ [][\A p \in Callers, out \in Outcomes : (acq[p].pc = "net" /\ AcquireResume(p, out)) =>
          LET k == CacheKey(acq[p].index) IN
          /\ mutex = NoCaller
          /\ k \notin refreshing'
          /\ IF out.err
             THEN cache' = cache /\ acq'[p].ret # "token"
             ELSE /\ cache'[k].Token.rt = acq[p].rt
                  /\ cache'[k].CachedAt = Now
                  /\ IF UsableNow(Now + TokenLifetime, SyncAvailable(out))
                     THEN /\ acq'[p].pc = "idle" /\ acq'[p].ret = "token"
                          /\ cache'[k].Available = SyncAvailable(out) - Unit
                     ELSE /\ acq'[p].ret # "token"
                          /\ cache'[k].Available = SyncAvailable(out)]_vars

\* position 0 failed to refresh; position 1 was refreshed in the call, got
\* two uses, and was dispensed at once
SecondPositionLazilyServed ==
  /\ acq[1].pc = "idle" /\ acq[1].ret = "token"
  /\ currentIndex = 1
  /\ exhausted = {CacheKey(0)} /\ ~Has(cache, CacheKey(0))
  /\ Has(cache, CacheKey(1))
  /\ cache[CacheKey(1)].CachedAt = Now /\ cache[CacheKey(1)].LastUsed = Now
  /\ cache[CacheKey(1)].Available = Unit
  /\ refreshing = {} /\ tasks = EmptyBag

\* C31: when the refresh an acquire made of position k fails, the resuming
\* step marks k exhausted, writes no cache entry, moves the cursor to
\* (k + 1) mod len(list), and the call goes on with its loop.
FailedRefreshMovesOn ==
  [][\A p \in Callers :
       (acq[p].pc = "net" /\ AcquireResume(p, RefreshFailed)) =>
         LET k == acq[p].index IN
         /\ CacheKey(k) \in exhausted'
         /\ cache' = cache
         /\ Len(configOrder) > 0
         /\ currentIndex' = (k + 1) % Len(configOrder)
         /\ acq'[p].pc = "loop" /\ mutex' = p]_vars

\* C32: a refresh that succeeded but whose quota check failed commits the
\* same remaining amount on both paths: the entry a background refresh
\* writes then carries the amount the synchronous refresh inside acquire
\* commits in that case.
QuotaFallbackSame ==
  [][\A t \in BagToSet(tasks) : TaskCommit(t, QuotaCheckFailed) =>
       cache'[CacheKey(t.index)].Available = SyncAvailable(QuotaCheckFailed)]_vars

\* C33: every acquire call ends; a call examines a position only while it
\* has made fewer attempts than the list is long, every examination adds
\* one attempt, a synchronous refresh is followed by the next attempt or by
\* the end of the call and never by a second refresh of the position; a
\* caller holds the pool lock exactly while it is inside the loop, and the
\* step that ends a call leaves the lock free.
AcquireTerminates ==
  /\ \A p \in MainCallers : (acq[p].pc # "idle") ~> (acq[p].pc = "idle")
  /\ [](\A p \in Callers : mutex = p <=> acq[p].pc = "loop")
  /\ [][\A p \in Callers :
          /\ (acq[p].pc = "loop" /\ acq'[p].pc = "loop") =>
               /\ acq[p].attempts < Len(configOrder)
               /\ acq'[p].attempts = acq[p].attempts + 1
          /\ (acq[p].pc = "loop" /\ acq'[p].pc = "net") =>
               /\ acq[p].attempts < Len(configOrder)
               /\ acq'[p].attempts = acq[p].attempts
          /\ (acq[p].pc = "net" /\ acq'[p].pc = "loop") =>
               acq'[p].attempts = acq[p].attempts + 1
          /\ Completes(p) => mutex' = NoCaller]_vars

\* a call examined both positions, found neither usable, and ended with
\* NoTokenAvailable and the lock free
BothExaminedThenRefused ==
  /\ acq[1].pc = "idle" /\ acq[1].ret = NoTokenAvailable
  /\ Len(configOrder) = 2
  /\ exhausted = {CacheKey(0), CacheKey(1)}
  /\ mutex = NoCaller

\* C34: no acquire call ends in a runtime fault, whatever removes run while
\* it has released the lock for its synchronous refresh.
AcquireNeverFaults ==
  \A p \in Callers : acq[p].ret # Panicked

\* C35: in every reachable state every key of the cache map is the key of
\* a position of the list.
CacheKeysArePositions ==
  \A k \in DOMAIN cache : \E i \in Positions : k = CacheKey(i)

\* the original reading of C36: a call that returns a token leaves the
\* cursor on the position whose token it returned
StickyCursor ==
  [][\A p \in Callers : Returns(p, "token") => CacheKey(currentIndex') = SelectedKey(p)]_vars

\* C36: the step in which a call returns a token does not move the cursor,
\* and when the token comes from an entry found in the cache it is the
\* cursor's entry that is dispensed; the cursor moves only in an acquire
\* step that returns no token and found the examined position without a
\* usable entry, or in a remove that resets it to 0 (so calls with nothing
\* in between stay on a position while its entry is usable).
CursorMovesOnlyPastUnusable ==
  /\ [][\A p \in Callers : Returns(p, "token") =>
          /\ currentIndex' = currentIndex
          /\ acq[p].pc = "loop" =>
               /\ UsableNow(cache[CacheKey(currentIndex)].Token.ExpiresAt,
                            cache[CacheKey(currentIndex)].Available)
               /\ cache'[CacheKey(currentIndex)].LastUsed = Now
               /\ cache'[CacheKey(currentIndex)].Available =
                    cache[CacheKey(currentIndex)].Available - Unit]_vars
  /\ [][currentIndex' # currentIndex =>
          \/ \E index \in Indices : RemoveConfig(index) /\ currentIndex' = 0
          \/ \E p \in Callers :
               /\ acq'[p] # acq[p]
               /\ acq'[p].ret # "token"
               /\ \/ acq[p].pc = "net"
                  \/ /\ acq[p].pc = "loop"
                     /\ Has(cache, CacheKey(currentIndex)) =>
                          ~UsableNow(cache[CacheKey(currentIndex)].Token.ExpiresAt,
                                     cache[CacheKey(currentIndex)].Available)]_vars

\* caller 1 has just been served from position 1, refreshed in its call with
\* two uses, while the cursor is on position 0, where caller 2 moved it and
\* is refreshing
ServedAwayFromCursor ==
  /\ acq[1].pc = "idle" /\ acq[1].ret = "token"
  /\ acq[2].pc = "net" /\ acq[2].index = 0
  /\ currentIndex = 0
  /\ Has(cache, CacheKey(1))
  /\ cache[CacheKey(1)].CachedAt = Now /\ cache[CacheKey(1)].LastUsed = Now
  /\ cache[CacheKey(1)].Available = Unit

\* caller p is about to examine the cursor's position, which has no entry
\* or a stale unusable one, and whose key is in the in-flight set
InFlightAtCursor(p) ==
  /\ acq[p].pc = "loop" /\ mutex = p
  /\ acq[p].attempts < Len(configOrder)
  /\ InRange(currentIndex, configOrder)
  /\ CacheKey(currentIndex) \in refreshing
  /\ LET k == CacheKey(currentIndex) IN
     ~Has(cache, k) \/ (CacheExpired(cache[k]) /\ ~IsUsable(cache[k]))

\* C37: an acquire that reaches a position whose refresh is in flight, with
\* no entry or a stale unusable one, moves the cursor past it and goes on
\* with its loop in the same step: it does not wait, starts no refresh,
\* marks nothing exhausted and writes no entry.
InFlightIsPassedOver ==
  [][\A p \in Callers : (InFlightAtCursor(p) /\ AcquireIter(p)) =>
       /\ currentIndex' = (currentIndex + 1) % Len(configOrder)
       /\ acq'[p].pc = "loop" /\ acq'[p].attempts = acq[p].attempts + 1
       /\ mutex' = p
       /\ UNCHANGED <<refreshing, tasks, exhausted, cache>>]_vars

\* the amount an entry was committed with, read from the usage it carries
CommittedAmount(ct) == CalculateAvailableCount(ct.UsageInfo)

\* C38: with whole amounts, the remaining amount of an entry stays between
\* 0 and the amount it was committed with; every call that returns an
\* entry's token takes exactly one use from it, in a step of its own; and
\* the amount of an entry changes in no other step than such a return or a
\* refresh commit under its key. So an entry committed with n uses is
\* returned by at most n calls before the next commit, whatever callers run.
DispensingBound ==
  /\ [](\A k \in DOMAIN cache :
          cache[k].Available >= 0 /\ cache[k].Available <= CommittedAmount(cache[k]))
  /\ [][\A p \in Callers : Returns(p, "token") =>
          LET k == SelectedKey(p) IN
          /\ Has(cache', k)
          /\ \A q \in Callers \ {p} : acq'[q] = acq[q]
          /\ IF acq[p].pc = "net"
             THEN /\ cache'[k].CachedAt = Now
                  /\ cache'[k].Available = CommittedAmount(cache'[k]) - Unit
             ELSE cache'[k].Available = cache[k].Available - Unit]_vars
  /\ [][\A k \in DOMAIN cache \cap DOMAIN cache' :
          cache'[k].Available # cache[k].Available =>
            \/ \E p \in Callers : Returns(p, "token") /\ SelectedKey(p) = k
            \/ /\ cache'[k].CachedAt = Now
               /\ \/ \E p \in Callers : acq[p].pc = "net" /\ acq'[p].pc # "net"
                                        /\ CacheKey(acq[p].index) = k
                  \/ \E t \in BagToSet(tasks) : t.pc = "net" /\ CacheKey(t.index) = k
                                                /\ tasks' # tasks]_vars

\* the entry of the only position was committed with two uses; each of the
\* two callers was served once from it and nothing is left
TwoCallersShareTwoUses ==
  /\ Len(configs) = 1
  /\ acq[1].pc = "idle" /\ acq[1].ret = "token"
  /\ acq[2].pc = "idle" /\ acq[2].ret = "token"
  /\ Has(cache, CacheKey(0))
  /\ cache[CacheKey(0)].UsageInfo = UsageTwo
  /\ cache[CacheKey(0)].Available = 0

Ask(kind, k, n, str, u) == [kind |-> kind, k |-> k, n |-> n, s |-> str, u |-> u]

\* what a step of caller p can be seen to leave behind: the cursor, the
\* lock, the caller's own call, the in-flight marks, the background tasks
\* and the cache, everything but the exhausted set
Observations(p) ==
  {Ask("cursor", CacheKey(0), i, "", NoUsage) : i \in 0..MaxLen}
  \cup {Ask("mutex", CacheKey(0), m, "", NoUsage) : m \in Callers \cup {NoCaller}}
  \cup {Ask("pc", CacheKey(0), p, v, NoUsage) : v \in {"idle", "loop", "net"}}
  \cup {Ask("ret", CacheKey(0), p, v, NoUsage) :
           v \in {"none", "token", NoTokenAvailable, Panicked}}
  \cup {Ask("attempts", CacheKey(0), v, "", NoUsage) : v \in 0..(MaxLen + 1)}
  \cup {Ask("index", CacheKey(0), v, "", NoUsage) : v \in 0..MaxLen}
  \cup {Ask("rt", CacheKey(0), p, v, NoUsage) : v \in {"", "rtA", "rtB", "rtC"}}
  \cup {Ask("inflight", k, 0, "", NoUsage) : k \in AllKeys}
  \cup {Ask("task", CacheKey(t.index), 0, t.rt, NoUsage) : t \in LiveTasks}
  \cup {Ask("has", k, 0, "", NoUsage) : k \in AllKeys}
  \cup {Ask("same", k, 0, "", NoUsage) : k \in AllKeys}
  \cup {Ask("avail", k, v, "", NoUsage) : k \in AllKeys, v \in 0..(2 * Unit)}
  \cup {Ask("usage", k, 0, "", v) : k \in AllKeys, v \in UsageAnswers \cup {NoUsage}}
  \cup {Ask("cachedAt", k, Now, "", NoUsage) : k \in AllKeys}
  \cup {Ask("lastUsed", k, Now, "", NoUsage) : k \in AllKeys}
  \cup {Ask("expiresAt", k, Now + TokenLifetime, "", NoUsage) : k \in AllKeys}
  \cup {Ask("token", k, 0, v, NoUsage) : k \in AllKeys, v \in {"rtA", "rtB", "rtC"}}

\* the state after a step of caller p answers the observation q
Observed(p, q) ==
  CASE q.kind = "cursor" -> currentIndex' = q.n
    [] q.kind = "mutex" -> mutex' = q.n
    [] q.kind = "pc" -> acq'[p].pc = q.s
    [] q.kind = "ret" -> acq'[p].ret = q.s
    [] q.kind = "attempts" -> acq'[p].attempts = q.n
    [] q.kind = "index" -> acq'[p].index = q.n
    [] q.kind = "rt" -> acq'[p].rt = q.s
    [] q.kind = "inflight" -> q.k \in refreshing'
    [] q.kind = "task" -> \E t \in BagToSet(tasks') : CacheKey(t.index) = q.k /\ t.rt = q.s
    [] q.kind = "has" -> Has(cache', q.k)
    [] q.kind = "same" -> Has(cache', q.k) /\ Has(cache, q.k) /\ cache'[q.k] = cache[q.k]
    [] q.kind = "avail" -> Has(cache', q.k) /\ cache'[q.k].Available = q.n
    [] q.kind = "usage" -> Has(cache', q.k) /\ cache'[q.k].UsageInfo = q.u
    [] q.kind = "cachedAt" -> Has(cache', q.k) /\ cache'[q.k].CachedAt = q.n
    [] q.kind = "lastUsed" -> Has(cache', q.k) /\ cache'[q.k].LastUsed = q.n
    [] q.kind = "expiresAt" -> Has(cache', q.k) /\ cache'[q.k].Token.ExpiresAt = q.n
    [] q.kind = "token" -> Has(cache', q.k) /\ cache'[q.k].Token.rt = q.s

\* some step of the named operation, taken from here, answers q
BeginGives(p, q) == ENABLED (LiveBegin(p) /\ Observed(p, q))
IterGives(p, q) == ENABLED (LiveIter(p) /\ Observed(p, q))
ResumeGives(p, out, q) == ENABLED (AcquireResume(p, out) /\ UNCHANGED rest /\ Observed(p, q))

\* the two states of a step are pool states that differ only in the
\* contents of the exhausted set
DiffersOnlyInExhausted ==
  /\ exhausted' # exhausted
  /\ UNCHANGED <<configs, configOrder, cache, currentIndex, refreshing, mutex, acq, tasks>>

\* the observations of an entry's single fields
EntryKinds == {"avail", "usage", "cachedAt", "lastUsed", "expiresAt", "token"}

\* C39: for two pool states that differ only in the contents of the
\* exhausted set, every step of an acquire call (its start, an iteration of
\* the selection loop, the return from a synchronous refresh with any
\* outcome) leaves the same cursor, lock, call state and result, in-flight
\* marks, background refreshes and cache entries; step by step the whole
\* call returns the same result, starts the same refreshes and leaves the
\* same cursor.
ExhaustedIsWriteOnly ==
  [][DiffersOnlyInExhausted =>
       \A p \in Callers :
         /\ acq[p].pc = "idle" =>
              \A q \in {r \in Observations(p) : r.kind \notin EntryKinds} :
                BeginGives(p, q) <=> BeginGives(p, q)'
         /\ acq[p].pc = "loop" =>
              \A q \in Observations(p) : IterGives(p, q) <=> IterGives(p, q)'
         /\ acq[p].pc = "net" =>
              \A q \in Observations(p), out \in LiveOutcomes(acq[p].rt) :
                ResumeGives(p, out, q) <=> ResumeGives(p, out, q)']_vars

\* a call was served from position 0, where the cursor stays, although
\* every position of the two-credential pool carries an exhausted mark
ServedThoughMarked ==
  /\ Len(configs) = 2 /\ currentIndex = 0
  /\ exhausted = {CacheKey(0), CacheKey(1)}
  /\ \E p \in Callers : acq[p].pc = "idle" /\ acq[p].ret = "token"
  /\ Has(cache, CacheKey(0)) /\ cache[CacheKey(0)].LastUsed = Now

====
